---- MODULE Spec2Model ----
(***************************************************************************)
(* Diffbubble: the unified-diff aligner (parser.Parse) as a state machine. *)
(*                                                                         *)
(* A text line is a sequence of one-character strings, so that prefix      *)
(* tests and first-character dispatch are computed, not assumed.  The      *)
(* reader delivers the input one line at a time (bufio.Scanner with the    *)
(* default ScanLines split); `input` records the lines delivered so far.   *)
(***************************************************************************)
EXTENDS Integers, Sequences, FiniteSets, TLC

VARIABLES
    input,          \* lines the scanner has returned so far, in order
    line,           \* scanner.Text() of the current loop iteration
    rows,           \* var rows []DiffRow
    pendingMinus,   \* var pendingMinus []DiffLine
    pendingPlus,    \* var pendingPlus []DiffLine
    leftLineNum,    \* leftLineNum
    rightLineNum,   \* rightLineNum
    scanErr,        \* scanner.Err() is non-nil
    readErr,        \* the underlying reader reported a read failure
    err,            \* the error Parse returned
    pc,             \* position of Parse: scan, flush, emit, final, return, done
    saved,          \* the locals of a second invocation of Parse, not running
    model,          \* the model of the application (m model)
    inflight,       \* the commands that are running, each with its count
    theme,          \* ui.currentTheme, by name
    find            \* one call of search.SearchInRows: arguments and result

\* The locals of one invocation of Parse.
parseVars == <<input, line, rows, pendingMinus, pendingPlus, leftLineNum,
               rightLineNum, scanErr, readErr, err, pc>>

\* The state outside Parse.
restVars == <<saved, model, inflight, theme, find>>

vars == <<parseVars, restVars>>

(***************************************************************************)
(* Bounds of the model.                                                    *)
(***************************************************************************)
MaxLines == 4

\* Lines the readers of two concurrent invocations deliver, in all.
ConcMaxLines == 3

\* Commands of the application running at once.
MaxInflight == 1

\* Characters the user types into the search input.
MaxQuery == 1

\* scanner.Buffer(make([]byte, 0, 64*1024), 4*1024*1024): the largest token.
MaxTokenSize == 4194304

(***************************************************************************)
(* type LineKind int; const ( LineKindUnknown = iota ... )                 *)
(***************************************************************************)
LineKindUnknown == 0
LineKindContext == 1
LineKindAddition == 2
LineKindDeletion == 3
LineKindHeader == 4

\* A *DiffLine is a sequence of length 0 (nil) or 1 (the line pointed to).
Nil == << >>

Ptr(l) == << l >>

\* DiffLine{Content: c, Kind: k}; Number keeps Go's zero value.
DiffLine(c, k) == [Number |-> 0, Content |-> c, Kind |-> k]

DiffRow(l, r) == [Left |-> l, Right |-> r]

(***************************************************************************)
(* The lines the reader can deliver.                                       *)
(***************************************************************************)
LnDelA == << "-", "a" >>
LnDelB == << "-", "b" >>
LnAddX == << "+", "x" >>
LnAddY == << "+", "y" >>
LnCtx == << " ", "c" >>
LnEmpty == << >>
LnHunk == << "@", "@", " ", "-", "3", " ", "+", "3", " ", "@", "@" >>
LnDiff == << "d", "i", "f", "f", " ", "a" >>
LnIndex == << "i", "n", "d", "e", "x", " ", "1" >>
LnOldFile == << "-", "-", "-", " ", "a" >>
LnNewFile == << "+", "+", "+", " ", "b" >>
LnNoNewline == << "\\", " ", "N", "o" >>

InputLines ==
    { LnDelA, LnDelB, LnAddX, LnAddY, LnCtx, LnEmpty, LnHunk, LnDiff,
      LnIndex, LnOldFile, LnNewFile, LnNoNewline }

(***************************************************************************)
(* strings.HasPrefix and the two prefix switches of the scan loop.         *)
(***************************************************************************)
HasPrefix(s, prefix) ==
    /\ Len(s) >= Len(prefix)
    /\ SubSeq(s, 1, Len(prefix)) = prefix

\* Variant: the `---` prefix case is missing from the switch.
IsMetadataNoOldFile(l) ==
    \/ HasPrefix(l, << "d", "i", "f", "f" >>)
    \/ HasPrefix(l, << "i", "n", "d", "e", "x" >>)
    \/ HasPrefix(l, << "+", "+", "+" >>)

IsMetadata(l) ==
    \/ HasPrefix(l, << "d", "i", "f", "f" >>)
    \/ HasPrefix(l, << "i", "n", "d", "e", "x" >>)
    \/ HasPrefix(l, << "-", "-", "-" >>)
    \/ HasPrefix(l, << "+", "+", "+" >>)

IsHunkHeader(l) == HasPrefix(l, << "@", "@" >>)

\* Reached only past both prefix cases and the len(line) == 0 test.
Reaches(l) == ~IsMetadata(l) /\ ~IsHunkHeader(l)

(***************************************************************************)
(* flush: the loop body, iteration i (0-based), over the closure's state.  *)
(* st = [rows, left, right] are rows, leftLineNum and rightLineNum.        *)
(***************************************************************************)
\* Variant: the counters advance on every iteration, padding included.
FlushIterCountsPadding(i, pm, pp, st) ==
    LET hasL == i < Len(pm)
        hasR == i < Len(pp)
        leftLine == IF hasL THEN Ptr([pm[i + 1] EXCEPT !.Number = st.left])
                            ELSE Nil
        rightLine == IF hasR THEN Ptr([pp[i + 1] EXCEPT !.Number = st.right])
                             ELSE Nil
    IN  [rows |-> Append(st.rows, DiffRow(leftLine, rightLine)),
         left |-> st.left + 1,
         right |-> st.right + 1]

FlushIter(i, pm, pp, st) ==
    LET hasL == i < Len(pm)
        hasR == i < Len(pp)
        leftLine == IF hasL THEN Ptr([pm[i + 1] EXCEPT !.Number = st.left])
                            ELSE Nil
        rightLine == IF hasR THEN Ptr([pp[i + 1] EXCEPT !.Number = st.right])
                             ELSE Nil
    IN  [rows |-> Append(st.rows, DiffRow(leftLine, rightLine)),
         left |-> IF hasL THEN st.left + 1 ELSE st.left,
         right |-> IF hasR THEN st.right + 1 ELSE st.right]

\* Variant: the loop bound is inclusive, one iteration too many.
RECURSIVE FlushLoopInclusive(_, _, _, _, _)
FlushLoopInclusive(i, maxLen, pm, pp, st) ==
    IF i <= maxLen
    THEN FlushLoopInclusive(i + 1, maxLen, pm, pp, FlushIter(i, pm, pp, st))
    ELSE st

RECURSIVE FlushLoop(_, _, _, _, _)
FlushLoop(i, maxLen, pm, pp, st) ==
    IF i < maxLen
    THEN FlushLoop(i + 1, maxLen, pm, pp, FlushIter(i, pm, pp, st))
    ELSE st

\* Variant: the comparison is inverted, giving the shorter length.
FlushMinLen(pm, pp) == IF Len(pp) < Len(pm) THEN Len(pp) ELSE Len(pm)

FlushMaxLen(pm, pp) == IF Len(pp) > Len(pm) THEN Len(pp) ELSE Len(pm)

\* Variant: no pairing, the deletions are emitted and then the additions.
FlushStateUnpaired(pm, pp, st) ==
    FlushLoop(0, Len(pp), << >>, pp, FlushLoop(0, Len(pm), pm, << >>, st))

FlushState(pm, pp, st) == FlushLoop(0, FlushMaxLen(pm, pp), pm, pp, st)

\* The effect of one call of flush() on the variables of Parse.
DoFlush ==
    LET st == FlushState(pendingMinus, pendingPlus,
                         [rows |-> rows, left |-> leftLineNum,
                          right |-> rightLineNum])
    IN  /\ rows' = st.rows
        /\ leftLineNum' = st.left
        /\ rightLineNum' = st.right
        /\ pendingMinus' = << >>
        /\ pendingPlus' = << >>

(***************************************************************************)
(* Parse                                                                   *)
(***************************************************************************)
\* The locals of an invocation as one value.
Frame ==
    [input |-> input, line |-> line, rows |-> rows,
     pendingMinus |-> pendingMinus, pendingPlus |-> pendingPlus,
     leftLineNum |-> leftLineNum, rightLineNum |-> rightLineNum,
     scanErr |-> scanErr, readErr |-> readErr, err |-> err, pc |-> pc]

\* The locals on entry to the scan loop.
StartFrame ==
    [input |-> << >>, line |-> << >>, rows |-> << >>,
     pendingMinus |-> << >>, pendingPlus |-> << >>,
     leftLineNum |-> 1, rightLineNum |-> 1,
     scanErr |-> FALSE, readErr |-> FALSE, err |-> FALSE, pc |-> "scan"]

Init ==
    /\ input = << >>
    /\ line = << >>
    /\ rows = << >>
    /\ pendingMinus = << >>
    /\ pendingPlus = << >>
    /\ leftLineNum = 1
    /\ rightLineNum = 1
    /\ scanErr = FALSE
    /\ readErr = FALSE
    /\ err = FALSE
    /\ pc = "scan"
    /\ saved = StartFrame
    /\ model = << >>
    /\ inflight = << >>
    /\ theme = ""
    /\ find = << >>

\* scanner.Scan() returned true and scanner.Text() is l.
Scanned(l) ==
    /\ pc = "scan"
    /\ Len(input) < MaxLines
    /\ input' = Append(input, l)
    /\ line' = l

ScanMetadata ==
    \E l \in InputLines :
        /\ Scanned(l)
        /\ IsMetadata(l)
        /\ pc' = "scan"
        /\ UNCHANGED <<rows, pendingMinus, pendingPlus, leftLineNum,
                       rightLineNum, scanErr, readErr, err>>
        /\ UNCHANGED restVars

\* Variant: the header row is emitted without the flush() before it.
ScanHunkHeaderNoFlush ==
    \E l \in InputLines :
        /\ Scanned(l)
        /\ ~IsMetadata(l)
        /\ IsHunkHeader(l)
        /\ pc' = "emit"
        /\ UNCHANGED <<rows, pendingMinus, pendingPlus, leftLineNum,
                       rightLineNum, scanErr, readErr, err>>
        /\ UNCHANGED restVars

ScanHunkHeader ==
    \E l \in InputLines :
        /\ Scanned(l)
        /\ ~IsMetadata(l)
        /\ IsHunkHeader(l)
        /\ pc' = "flush"
        /\ UNCHANGED <<rows, pendingMinus, pendingPlus, leftLineNum,
                       rightLineNum, scanErr, readErr, err>>
        /\ UNCHANGED restVars

ScanEmpty ==
    \E l \in InputLines :
        /\ Scanned(l)
        /\ Reaches(l)
        /\ Len(l) = 0
        /\ pc' = "flush"
        /\ UNCHANGED <<rows, pendingMinus, pendingPlus, leftLineNum,
                       rightLineNum, scanErr, readErr, err>>
        /\ UNCHANGED restVars

\* Variant: the deletion is pushed at the front of the buffer.
ScanMinusPrepend ==
    \E l \in InputLines :
        /\ Scanned(l)
        /\ Reaches(l)
        /\ Len(l) # 0
        /\ l[1] = "-"
        /\ pendingMinus' = << DiffLine(l, LineKindDeletion) >> \o pendingMinus
        /\ pc' = "scan"
        /\ UNCHANGED <<rows, pendingPlus, leftLineNum, rightLineNum, scanErr,
                       readErr, err>>
        /\ UNCHANGED restVars

ScanMinus ==
    \E l \in InputLines :
        /\ Scanned(l)
        /\ Reaches(l)
        /\ Len(l) # 0
        /\ l[1] = "-"
        /\ pendingMinus' = Append(pendingMinus, DiffLine(l, LineKindDeletion))
        /\ pc' = "scan"
        /\ UNCHANGED <<rows, pendingPlus, leftLineNum, rightLineNum, scanErr,
                       readErr, err>>
        /\ UNCHANGED restVars

\* Variant: the addition is appended to the deletions' buffer.
ScanPlusIntoMinus ==
    \E l \in InputLines :
        /\ Scanned(l)
        /\ Reaches(l)
        /\ Len(l) # 0
        /\ l[1] = "+"
        /\ pendingMinus' = Append(pendingMinus, DiffLine(l, LineKindAddition))
        /\ pc' = "scan"
        /\ UNCHANGED <<rows, pendingPlus, leftLineNum, rightLineNum, scanErr,
                       readErr, err>>
        /\ UNCHANGED restVars

ScanPlus ==
    \E l \in InputLines :
        /\ Scanned(l)
        /\ Reaches(l)
        /\ Len(l) # 0
        /\ l[1] = "+"
        /\ pendingPlus' = Append(pendingPlus, DiffLine(l, LineKindAddition))
        /\ pc' = "scan"
        /\ UNCHANGED <<rows, pendingMinus, leftLineNum, rightLineNum, scanErr,
                       readErr, err>>
        /\ UNCHANGED restVars

ScanContext ==
    \E l \in InputLines :
        /\ Scanned(l)
        /\ Reaches(l)
        /\ Len(l) # 0
        /\ l[1] = " "
        /\ pc' = "flush"
        /\ UNCHANGED <<rows, pendingMinus, pendingPlus, leftLineNum,
                       rightLineNum, scanErr, readErr, err>>
        /\ UNCHANGED restVars

\* Variant: an unrecognized line is handled like a context line.
ScanOtherFlushes ==
    \E l \in InputLines :
        /\ Scanned(l)
        /\ Reaches(l)
        /\ Len(l) # 0
        /\ l[1] \notin { "-", "+", " " }
        /\ pc' = "flush"
        /\ UNCHANGED <<rows, pendingMinus, pendingPlus, leftLineNum,
                       rightLineNum, scanErr, readErr, err>>
        /\ UNCHANGED restVars

ScanOther ==
    \E l \in InputLines :
        /\ Scanned(l)
        /\ Reaches(l)
        /\ Len(l) # 0
        /\ l[1] \notin { "-", "+", " " }
        /\ pc' = "scan"
        /\ UNCHANGED <<rows, pendingMinus, pendingPlus, leftLineNum,
                       rightLineNum, scanErr, readErr, err>>
        /\ UNCHANGED restVars

\* scanner.Scan() returned false at the end of the input.
ScanEOF ==
    /\ pc = "scan"
    /\ pc' = "final"
    /\ UNCHANGED <<input, line, rows, pendingMinus, pendingPlus, leftLineNum,
                   rightLineNum, scanErr, readErr, err>>
    /\ UNCHANGED restVars

\* scanner.Scan() returned false because the reader failed.
ScanFail ==
    /\ pc = "scan"
    /\ scanErr' = TRUE
    /\ readErr' = TRUE
    /\ pc' = "final"
    /\ UNCHANGED <<input, line, rows, pendingMinus, pendingPlus, leftLineNum,
                   rightLineNum, err>>
    /\ UNCHANGED restVars

\* The lengths of the line the reader may hold next, when it is a long one.
TokenLengths == { MaxTokenSize - 1, MaxTokenSize, MaxTokenSize + 1 }

\* bufio.Scanner gives up with ErrTooLong once its buffer, which never grows
\* past the largest token size, is full and holds no complete line.
TokenTooLong(n) == n >= MaxTokenSize

\* scanner.Scan() returned false because the next line does not fit.
ScanTooLong ==
    /\ pc = "scan"
    /\ \E n \in TokenLengths : TokenTooLong(n)
    /\ scanErr' = TRUE
    /\ pc' = "final"
    /\ UNCHANGED <<input, line, rows, pendingMinus, pendingPlus, leftLineNum,
                   rightLineNum, readErr, err>>
    /\ UNCHANGED restVars

\* flush() called from the hunk-header, empty-line and context cases.
Flush ==
    /\ pc = "flush"
    /\ DoFlush
    /\ pc' = "emit"
    /\ UNCHANGED <<input, line, scanErr, readErr, err>>
    /\ UNCHANGED restVars

\* Variant: a hunk header restarts both counters.
EmitHeaderResets ==
    /\ pc = "emit"
    /\ IsHunkHeader(line)
    /\ rows' = Append(rows, DiffRow(Ptr(DiffLine(line, LineKindHeader)),
                                    Ptr(DiffLine(line, LineKindHeader))))
    /\ leftLineNum' = 1
    /\ rightLineNum' = 1
    /\ pc' = "scan"
    /\ UNCHANGED <<input, line, pendingMinus, pendingPlus, scanErr, readErr,
                   err>>
    /\ UNCHANGED restVars

EmitHeader ==
    /\ pc = "emit"
    /\ IsHunkHeader(line)
    /\ rows' = Append(rows, DiffRow(Ptr(DiffLine(line, LineKindHeader)),
                                    Ptr(DiffLine(line, LineKindHeader))))
    /\ pc' = "scan"
    /\ UNCHANGED <<input, line, pendingMinus, pendingPlus, leftLineNum,
                   rightLineNum, scanErr, readErr, err>>
    /\ UNCHANGED restVars

\* Variant: the right side is numbered with the left counter.
ContextRowLeftCounter(content, l, r) ==
    DiffRow(Ptr([Number |-> l, Content |-> content, Kind |-> LineKindContext]),
            Ptr([Number |-> l, Content |-> content, Kind |-> LineKindContext]))

\* Both context cases: content is "" for the empty line, line otherwise.
ContextRow(content, l, r) ==
    DiffRow(Ptr([Number |-> l, Content |-> content, Kind |-> LineKindContext]),
            Ptr([Number |-> r, Content |-> content, Kind |-> LineKindContext]))

EmitEmpty ==
    /\ pc = "emit"
    /\ ~IsHunkHeader(line)
    /\ Len(line) = 0
    /\ rows' = Append(rows, ContextRow(<< >>, leftLineNum, rightLineNum))
    /\ leftLineNum' = leftLineNum + 1
    /\ rightLineNum' = rightLineNum + 1
    /\ pc' = "scan"
    /\ UNCHANGED <<input, line, pendingMinus, pendingPlus, scanErr, readErr,
                   err>>
    /\ UNCHANGED restVars

EmitContext ==
    /\ pc = "emit"
    /\ ~IsHunkHeader(line)
    /\ Len(line) # 0
    /\ rows' = Append(rows, ContextRow(line, leftLineNum, rightLineNum))
    /\ leftLineNum' = leftLineNum + 1
    /\ rightLineNum' = rightLineNum + 1
    /\ pc' = "scan"
    /\ UNCHANGED <<input, line, pendingMinus, pendingPlus, scanErr, readErr,
                   err>>
    /\ UNCHANGED restVars

\* Variant: no flush() after the scan loop.
FinalFlushMissing ==
    /\ pc = "final"
    /\ pc' = "return"
    /\ UNCHANGED <<input, line, rows, pendingMinus, pendingPlus, leftLineNum,
                   rightLineNum, scanErr, readErr, err>>
    /\ UNCHANGED restVars

\* The flush() after the scan loop.
FinalFlush ==
    /\ pc = "final"
    /\ DoFlush
    /\ pc' = "return"
    /\ UNCHANGED <<input, line, scanErr, readErr, err>>
    /\ UNCHANGED restVars

\* Variant: on an error the rows are dropped (return nil, err).
ReturnNoRowsOnError ==
    /\ pc = "return"
    /\ err' = scanErr
    /\ rows' = IF scanErr THEN << >> ELSE rows
    /\ pc' = "done"
    /\ UNCHANGED <<input, line, pendingMinus, pendingPlus, leftLineNum,
                   rightLineNum, scanErr, readErr>>
    /\ UNCHANGED restVars

\* if err := scanner.Err(); err != nil { return rows, err }; return rows, nil
Return ==
    /\ pc = "return"
    /\ err' = scanErr
    /\ pc' = "done"
    /\ UNCHANGED <<input, line, rows, pendingMinus, pendingPlus, leftLineNum,
                   rightLineNum, scanErr, readErr>>
    /\ UNCHANGED restVars

Next ==
    \/ ScanMetadata
    \/ ScanHunkHeader
    \/ ScanEmpty
    \/ ScanMinus
    \/ ScanPlus
    \/ ScanContext
    \/ ScanOther
    \/ ScanEOF
    \/ ScanFail
    \/ ScanTooLong
    \/ Flush
    \/ EmitHeader
    \/ EmitEmpty
    \/ EmitContext
    \/ FinalFlush
    \/ Return

Spec == Init /\ [][Next]_vars

(***************************************************************************)
(* Vocabulary of the properties, stated on the input text and on the rows  *)
(* alone.                                                                  *)
(***************************************************************************)
Max(a, b) == IF a > b THEN a ELSE b

Min(a, b) == IF a < b THEN a ELSE b

StartsWith(l, p) == Len(p) <= Len(l) /\ \A i \in 1..Len(p) : l[i] = p[i]

FirstCharIs(l, c) == Len(l) > 0 /\ l[1] = c

MetaLine(l) ==
    \/ StartsWith(l, << "d", "i", "f", "f" >>)
    \/ StartsWith(l, << "i", "n", "d", "e", "x" >>)
    \/ StartsWith(l, << "-", "-", "-" >>)
    \/ StartsWith(l, << "+", "+", "+" >>)

HunkLine(l) == StartsWith(l, << "@", "@" >>)

DeletionLine(l) == ~MetaLine(l) /\ FirstCharIs(l, "-")

AdditionLine(l) == ~MetaLine(l) /\ FirstCharIs(l, "+")

ContextLine(l) == ~MetaLine(l) /\ (Len(l) = 0 \/ FirstCharIs(l, " "))

OldContentLine(l) == DeletionLine(l) \/ ContextLine(l)

NewContentLine(l) == AdditionLine(l) \/ ContextLine(l)

\* The lines that make Parse flush.
BoundaryLine(l) == HunkLine(l) \/ ContextLine(l)

Present(p) == p # << >>

HasKind(p, k) == Present(p) /\ p[1].Kind = k

\* A side that carries file content: a deletion, an addition or context.
Numbered(p) == Present(p) /\ p[1].Kind # LineKindHeader

OldLine(r) == r.Left

NewLine(r) == r.Right

IsOldContent(r) ==
    HasKind(r.Left, LineKindDeletion) \/ HasKind(r.Left, LineKindContext)

IsNewContent(r) ==
    HasKind(r.Right, LineKindAddition) \/ HasKind(r.Right, LineKindContext)

IsHeaderRow(r) ==
    HasKind(r.Left, LineKindHeader) /\ HasKind(r.Right, LineKindHeader)

IsContextRow(r) ==
    HasKind(r.Left, LineKindContext) /\ HasKind(r.Right, LineKindContext)

IsPairRow(r) ==
    HasKind(r.Left, LineKindDeletion) /\ HasKind(r.Right, LineKindAddition)

OldContents(rs) ==
    LET sel == SelectSeq(rs, IsOldContent)
    IN  [i \in 1..Len(sel) |-> sel[i].Left[1].Content]

NewContents(rs) ==
    LET sel == SelectSeq(rs, IsNewContent)
    IN  [i \in 1..Len(sel) |-> sel[i].Right[1].Content]

OldNumbers(rs) ==
    LET sel == SelectSeq(rs, IsOldContent)
    IN  [i \in 1..Len(sel) |-> sel[i].Left[1].Number]

NewNumbers(rs) ==
    LET sel == SelectSeq(rs, IsNewContent)
    IN  [i \in 1..Len(sel) |-> sel[i].Right[1].Number]

\* The input lines that arrived after the last boundary line among the
\* first n lines.
RECURSIVE SinceBoundary(_, _)
SinceBoundary(inp, n) ==
    IF n = 0 \/ BoundaryLine(inp[n])
    THEN << >>
    ELSE Append(SinceBoundary(inp, n - 1), inp[n])

\* The lines buffered when a flush starts: at the flush of a boundary line
\* the last input line is that boundary; at the final flush there is none.
Arrived ==
    IF pc = "flush" THEN SinceBoundary(input, Len(input) - 1)
                    ELSE SinceBoundary(input, Len(input))

Flushing == pc \in { "flush", "final" }

(***************************************************************************)
(* C1: every flush (before a context row, an empty-line row, a header row, *)
(* or at the end of the input) appends exactly max(|pendingMinus|,         *)
(* |pendingPlus|) rows to the rows already there and leaves both buffers   *)
(* empty; with both buffers empty it appends nothing.                      *)
(***************************************************************************)
C1_FlushAppendsMaxRows ==
    [][Flushing =>
        /\ Len(rows') = Len(rows) + Max(Len(pendingMinus), Len(pendingPlus))
        /\ SubSeq(rows', 1, Len(rows)) = rows
        /\ pendingMinus' = << >>
        /\ pendingPlus' = << >>]_vars

\* A flush of one deletion and two additions has just run.
C1_Witness ==
    /\ pc = "emit"
    /\ Len(SinceBoundary(input, Len(input) - 1)) = 3
    /\ Len(rows) >= 2
    /\ IsPairRow(rows[Len(rows) - 1])
    /\ ~Present(rows[Len(rows)].Left)
    /\ HasKind(rows[Len(rows)].Right, LineKindAddition)
    /\ pendingMinus = << >>
    /\ pendingPlus = << >>

(***************************************************************************)
(* C2: in a flush, the k-th '-' line and the k-th '+' line that arrived    *)
(* since the last boundary share row k of the flush, however they were     *)
(* interleaved; past the shorter buffer a row carries the longer side only.*)
(***************************************************************************)
C2_PairedByArrivalIndex ==
    [][Flushing =>
        LET dels == SelectSeq(Arrived, DeletionLine)
            adds == SelectSeq(Arrived, AdditionLine)
            base == Len(rows)
            n == Max(Len(dels), Len(adds))
        IN  /\ Len(rows') >= base + n
            /\ \A k \in 1..n :
                 /\ IF k <= Len(dels)
                    THEN /\ Present(rows'[base + k].Left)
                         /\ rows'[base + k].Left[1].Content = dels[k]
                    ELSE ~Present(rows'[base + k].Left)
                 /\ IF k <= Len(adds)
                    THEN /\ Present(rows'[base + k].Right)
                         /\ rows'[base + k].Right[1].Content = adds[k]
                    ELSE ~Present(rows'[base + k].Right)]_vars

\* "-a", "+x", "-b" interleaved, then flushed at the end of the input.
C2_Witness ==
    /\ pc = "return"
    /\ input = << LnDelA, LnAddX, LnDelB >>
    /\ Len(rows) = 2
    /\ rows[1].Left[1].Content = LnDelA
    /\ rows[1].Right[1].Content = LnAddX
    /\ rows[2].Left[1].Content = LnDelB
    /\ ~Present(rows[2].Right)

(***************************************************************************)
(* C3: no row has an addition on the old side or a deletion on the new     *)
(* side.                                                                   *)
(***************************************************************************)
C3_NoCrossContamination ==
    \A i \in 1..Len(rows) :
        /\ ~HasKind(rows[i].Left, LineKindAddition)
        /\ ~HasKind(rows[i].Right, LineKindDeletion)

\* Parse has returned rows holding a deletion, an addition and padding.
C3_Witness ==
    /\ pc = "done"
    /\ \E i \in 1..Len(rows) : HasKind(rows[i].Left, LineKindDeletion)
    /\ \E i \in 1..Len(rows) :
         HasKind(rows[i].Right, LineKindAddition) /\ ~Present(rows[i].Left)

(***************************************************************************)
(* C4: the old-side deletion and context Lines, in row order, are exactly  *)
(* the input's deletion and context lines (metadata and unrecognized lines *)
(* apart) in input order; likewise the new side with additions.            *)
(***************************************************************************)
C4_OrderPreserved ==
    pc = "done" =>
        /\ OldContents(rows) = SelectSeq(input, OldContentLine)
        /\ NewContents(rows) = SelectSeq(input, NewContentLine)

\* A returned result with a paired row before a context row, from an input
\* that also held a discarded line.
C4_Witness ==
    /\ pc = "done"
    /\ \E i, j \in 1..Len(rows) :
         i < j /\ IsPairRow(rows[i]) /\ IsContextRow(rows[j])
    /\ \E k \in 1..Len(input) : ~OldContentLine(input[k])
                                /\ ~NewContentLine(input[k])

(***************************************************************************)
(* C5 as stated: between two successive rows whose old side is present the *)
(* old number grows by exactly 1; the same for the new side.               *)
(***************************************************************************)
C5_SuccessivePresentRows ==
    pc = "done" =>
        \A i, j \in 1..Len(rows) :
            /\ (/\ i < j
                /\ Present(rows[i].Left) /\ Present(rows[j].Left)
                /\ \A m \in (i + 1)..(j - 1) : ~Present(rows[m].Left))
               => rows[j].Left[1].Number = rows[i].Left[1].Number + 1
            /\ (/\ i < j
                /\ Present(rows[i].Right) /\ Present(rows[j].Right)
                /\ \A m \in (i + 1)..(j - 1) : ~Present(rows[m].Right))
               => rows[j].Right[1].Number = rows[i].Right[1].Number + 1

(***************************************************************************)
(* C5 amended: between two successive rows whose old side is present and   *)
(* is not a header Line the old number grows by exactly 1; the same for    *)
(* the new side.                                                           *)
(***************************************************************************)
C5_SuccessiveNumberedRows ==
    pc = "done" =>
        \A i, j \in 1..Len(rows) :
            /\ (/\ i < j
                /\ Numbered(rows[i].Left) /\ Numbered(rows[j].Left)
                /\ \A m \in (i + 1)..(j - 1) : ~Numbered(rows[m].Left))
               => rows[j].Left[1].Number = rows[i].Left[1].Number + 1
            /\ (/\ i < j
                /\ Numbered(rows[i].Right) /\ Numbered(rows[j].Right)
                /\ \A m \in (i + 1)..(j - 1) : ~Numbered(rows[m].Right))
               => rows[j].Right[1].Number = rows[i].Right[1].Number + 1

\* A returned result: two numbered rows with a header row, and a padded
\* row, between numbered rows.
C5_Witness ==
    /\ pc = "done"
    /\ \E i, h, j \in 1..Len(rows) :
         /\ i < h /\ h < j
         /\ Numbered(rows[i].Left) /\ IsHeaderRow(rows[h])
         /\ Numbered(rows[j].Left)
         /\ rows[j].Left[1].Number = rows[i].Left[1].Number + 1

(***************************************************************************)
(* C6: at every point of Parse each counter is 1 plus the number of        *)
(* content Lines (deletion or context on the old side, addition or context *)
(* on the new side) emitted so far on its side; header rows, padding,      *)
(* metadata and unrecognized lines do not move it and a hunk header does   *)
(* not reset it.                                                           *)
(***************************************************************************)
C6_CountersCountContent ==
    /\ leftLineNum = 1 + Len(SelectSeq(rows, IsOldContent))
    /\ rightLineNum = 1 + Len(SelectSeq(rows, IsNewContent))

\* A header row has been emitted after a padded row, the counters apart.
C6_Witness ==
    /\ pc = "scan"
    /\ Len(rows) >= 2
    /\ IsHeaderRow(rows[Len(rows)])
    /\ \E i \in 1..Len(rows) : ~Present(rows[i].Left)
    /\ leftLineNum = 1
    /\ rightLineNum > 1

(***************************************************************************)
(* Reading a unified diff as the diff tool means it: `@@ -a,b +c,d @@`     *)
(* opens a hunk of b old lines starting at old line a and d new lines      *)
(* starting at new line c (a count left out is 1).                         *)
(***************************************************************************)
IsDigit(c) == c \in { "0", "1", "2", "3", "4", "5", "6", "7", "8", "9" }

DigitValue(c) ==
    CASE c = "0" -> 0 [] c = "1" -> 1 [] c = "2" -> 2 [] c = "3" -> 3
      [] c = "4" -> 4 [] c = "5" -> 5 [] c = "6" -> 6 [] c = "7" -> 7
      [] c = "8" -> 8 [] c = "9" -> 9

RECURSIVE ReadNumber(_, _, _)
ReadNumber(l, i, acc) ==
    IF i <= Len(l) /\ IsDigit(l[i])
    THEN ReadNumber(l, i + 1, acc * 10 + DigitValue(l[i]))
    ELSE [val |-> acc, next |-> i]

ReadRange(l, i) ==
    LET a == ReadNumber(l, i, 0)
    IN  IF a.next <= Len(l) /\ l[a.next] = ","
        THEN LET b == ReadNumber(l, a.next + 1, 0)
             IN  [start |-> a.val, count |-> b.val, next |-> b.next,
                  ok |-> a.next > i /\ b.next > a.next + 1]
        ELSE [start |-> a.val, count |-> 1, next |-> a.next,
              ok |-> a.next > i]

HunkRanges(l) ==
    LET o == ReadRange(l, 5)
        n == ReadRange(l, o.next + 2)
    IN  [ok |-> /\ StartsWith(l, << "@", "@", " ", "-" >>)
                /\ o.ok
                /\ o.next + 1 <= Len(l)
                /\ l[o.next] = " " /\ l[o.next + 1] = "+"
                /\ n.ok
                /\ SubSeq(l, n.next, n.next + 2) = << " ", "@", "@" >>,
         oldStart |-> o.start, oldCount |-> o.count,
         newStart |-> n.start, newCount |-> n.count]

\* One line of the walk over a diff.  st: ok, the lines still owed by the
\* open hunk on each side, the next position on each side, and the
\* positions of the content lines met so far.  Outside a hunk only
\* preamble lines, the no-newline marker and hunk headers may appear; a
\* hunk never starts before the end of the one before it.
WalkLine(l, st) ==
    IF ~st.ok THEN st
    ELSE IF st.oldLeft = 0 /\ st.newLeft = 0
    THEN IF HunkLine(l)
         THEN LET h == HunkRanges(l)
              IN  [st EXCEPT !.ok = /\ h.ok
                                    /\ h.oldStart >= st.oldPos
                                    /\ h.newStart >= st.newPos,
                             !.oldLeft = h.oldCount, !.newLeft = h.newCount,
                             !.oldPos = h.oldStart, !.newPos = h.newStart]
         ELSE [st EXCEPT !.ok = MetaLine(l) \/ FirstCharIs(l, "\\")]
    ELSE IF MetaLine(l) \/ HunkLine(l) THEN [st EXCEPT !.ok = FALSE]
    ELSE IF FirstCharIs(l, "-")
    THEN [st EXCEPT !.ok = st.oldLeft > 0,
                    !.oldLeft = st.oldLeft - 1, !.oldPos = st.oldPos + 1,
                    !.oldNums = Append(st.oldNums, st.oldPos)]
    ELSE IF FirstCharIs(l, "+")
    THEN [st EXCEPT !.ok = st.newLeft > 0,
                    !.newLeft = st.newLeft - 1, !.newPos = st.newPos + 1,
                    !.newNums = Append(st.newNums, st.newPos)]
    ELSE IF Len(l) = 0 \/ FirstCharIs(l, " ")
    THEN [st EXCEPT !.ok = st.oldLeft > 0 /\ st.newLeft > 0,
                    !.oldLeft = st.oldLeft - 1, !.oldPos = st.oldPos + 1,
                    !.oldNums = Append(st.oldNums, st.oldPos),
                    !.newLeft = st.newLeft - 1, !.newPos = st.newPos + 1,
                    !.newNums = Append(st.newNums, st.newPos)]
    ELSE [st EXCEPT !.ok = FirstCharIs(l, "\\")]

RECURSIVE Walk(_, _)
Walk(inp, n) ==
    IF n = 0
    THEN [ok |-> TRUE, oldLeft |-> 0, newLeft |-> 0, oldPos |-> 1,
          newPos |-> 1, oldNums |-> << >>, newNums |-> << >>]
    ELSE WalkLine(inp[n], Walk(inp, n - 1))

\* A complete diff of one file whose hunks hold exactly the lines their
\* headers announce.
WellFormedDiff(inp) ==
    LET w == Walk(inp, Len(inp))
    IN  w.ok /\ w.oldLeft = 0 /\ w.newLeft = 0

(***************************************************************************)
(* C7: for a well-formed unified diff, the number of every old-side        *)
(* deletion or context Line is that line's position in the old file and    *)
(* the number of every new-side addition or context Line is its position   *)
(* in the new file, also when a hunk starts at a line other than 1.        *)
(***************************************************************************)
C7_NumbersAreFilePositions ==
    (pc = "done" /\ ~err /\ WellFormedDiff(input)) =>
        LET w == Walk(input, Len(input))
        IN  /\ OldNumbers(rows) = w.oldNums
            /\ NewNumbers(rows) = w.newNums

(***************************************************************************)
(* C8: every input line whose first character is '-' comes out as an       *)
(* old-side deletion Line, every line whose first character is '+' as a    *)
(* new-side addition Line, and every line whose first character is a space *)
(* as a context row, whatever follows the first character.                 *)
(***************************************************************************)
MinusFirst(l) == FirstCharIs(l, "-")

PlusFirst(l) == FirstCharIs(l, "+")

SpaceFirst(l) == FirstCharIs(l, " ")

IsDeletionOnOld(r) == HasKind(r.Left, LineKindDeletion)

IsAdditionOnNew(r) == HasKind(r.Right, LineKindAddition)

IsSpaceContextRow(r) == IsContextRow(r) /\ SpaceFirst(r.Left[1].Content)

C8_FirstCharacterDecides ==
    pc = "done" =>
        LET d == SelectSeq(rows, IsDeletionOnOld)
            a == SelectSeq(rows, IsAdditionOnNew)
            c == SelectSeq(rows, IsSpaceContextRow)
        IN  /\ [i \in 1..Len(d) |-> d[i].Left[1].Content]
                 = SelectSeq(input, MinusFirst)
            /\ [i \in 1..Len(a) |-> a[i].Right[1].Content]
                 = SelectSeq(input, PlusFirst)
            /\ [i \in 1..Len(c) |-> c[i].Left[1].Content]
                 = SelectSeq(input, SpaceFirst)

(***************************************************************************)
(* C9: reading a metadata line (prefix diff, index, --- or +++) changes    *)
(* neither the rows, nor a pending buffer, nor a counter, and starts no    *)
(* flush; an input of metadata lines alone returns no row and no error.    *)
(***************************************************************************)
AllMetadata(inp) == \A k \in 1..Len(inp) : MetaLine(inp[k])

C9_MetadataChangesNothing ==
    [][/\ (Len(input') = Len(input) + 1 /\ MetaLine(input'[Len(input')]))
          => /\ pc' = "scan"
             /\ UNCHANGED <<rows, pendingMinus, pendingPlus, leftLineNum,
                            rightLineNum>>
       /\ (pc' = "done" /\ ~scanErr' /\ AllMetadata(input'))
          => rows' = << >> /\ ~err']_vars

\* A `---` line has been read while a deletion was pending.
C9_Witness ==
    /\ pc = "scan"
    /\ Len(input) >= 2
    /\ input[Len(input)] = LnOldFile
    /\ Len(pendingMinus) = 1
    /\ rows # << >>

(***************************************************************************)
(* C10: on a line beginning with @@ Parse flushes first and then appends   *)
(* one row whose two sides are header Lines with the whole line as content *)
(* and number 0; the counters after the header row are those after the     *)
(* flush.                                                                  *)
(***************************************************************************)
HeaderLineOf(l) == << [Number |-> 0, Content |-> l, Kind |-> LineKindHeader] >>

C10_HeaderAfterFlush ==
    [][/\ (Len(input') = Len(input) + 1 /\ HunkLine(input'[Len(input')]))
          => /\ pc' = "flush"
             /\ UNCHANGED <<rows, pendingMinus, pendingPlus, leftLineNum,
                            rightLineNum>>
       /\ (pc = "flush" /\ HunkLine(line))
          => pc' = "emit" /\ pendingMinus' = << >> /\ pendingPlus' = << >>
       /\ (pc = "emit" /\ HunkLine(line))
          => /\ pendingMinus = << >> /\ pendingPlus = << >>
             /\ rows' = Append(rows, [Left |-> HeaderLineOf(line),
                                      Right |-> HeaderLineOf(line)])
             /\ UNCHANGED <<leftLineNum, rightLineNum>>
             /\ pc' = "scan"]_vars

\* A header row has been appended right after the rows of a flushed
\* deletion/addition pair.
C10_Witness ==
    /\ pc = "scan"
    /\ Len(rows) >= 2
    /\ rows[Len(rows)] = [Left |-> HeaderLineOf(LnHunk),
                          Right |-> HeaderLineOf(LnHunk)]
    /\ IsPairRow(rows[Len(rows) - 1])
    /\ leftLineNum > 1
    /\ pendingMinus = << >>
    /\ pendingPlus = << >>

(***************************************************************************)
(* C11: on an empty line or a line beginning with a space Parse flushes    *)
(* first and then appends one row of two context Lines with the same       *)
(* content (the raw line), the old side numbered with the old counter and  *)
(* the new side with the new counter, and then adds 1 to both counters.    *)
(***************************************************************************)
ContextLineOf(l, n) == << [Number |-> n, Content |-> l, Kind |-> LineKindContext] >>

C11_ContextRowAfterFlush ==
    [][/\ (Len(input') = Len(input) + 1 /\ ContextLine(input'[Len(input')]))
          => /\ pc' = "flush"
             /\ UNCHANGED <<rows, pendingMinus, pendingPlus, leftLineNum,
                            rightLineNum>>
       /\ (pc = "flush" /\ ContextLine(line))
          => pc' = "emit" /\ pendingMinus' = << >> /\ pendingPlus' = << >>
       /\ (pc = "emit" /\ ContextLine(line))
          => /\ pendingMinus = << >> /\ pendingPlus = << >>
             /\ rows' = Append(rows,
                               [Left |-> ContextLineOf(line, leftLineNum),
                                Right |-> ContextLineOf(line, rightLineNum)])
             /\ leftLineNum' = leftLineNum + 1
             /\ rightLineNum' = rightLineNum + 1
             /\ pc' = "scan"]_vars

\* A context row has been appended after a flushed addition: its two sides
\* carry different numbers.
C11_Witness ==
    /\ pc = "scan"
    /\ Len(rows) >= 2
    /\ rows[Len(rows)] = [Left |-> ContextLineOf(LnCtx, 1),
                          Right |-> ContextLineOf(LnCtx, 2)]
    /\ HasKind(rows[Len(rows) - 1].Right, LineKindAddition)
    /\ leftLineNum = 2
    /\ rightLineNum = 3

(***************************************************************************)
(* C12: a non-empty line that is neither metadata nor a hunk header and    *)
(* whose first character is none of '-', '+' and space changes nothing: no *)
(* row, no flush, buffers and counters as before; the deletions buffered   *)
(* before it and the additions after it still meet in the same flush.      *)
(***************************************************************************)
UnrecognizedLine(l) ==
    /\ Len(l) > 0
    /\ ~MetaLine(l) /\ ~HunkLine(l)
    /\ l[1] \notin { "-", "+", " " }

BufferContents(buf) == [i \in 1..Len(buf) |-> buf[i].Content]

C12_UnrecognizedChangesNothing ==
    [][/\ (Len(input') = Len(input) + 1 /\ UnrecognizedLine(input'[Len(input')]))
          => /\ pc' = "scan"
             /\ UNCHANGED <<rows, pendingMinus, pendingPlus, leftLineNum,
                            rightLineNum>>
       /\ pc' = "scan"
          => /\ BufferContents(pendingMinus')
                  = SelectSeq(SinceBoundary(input', Len(input')), DeletionLine)
             /\ BufferContents(pendingPlus')
                  = SelectSeq(SinceBoundary(input', Len(input')), AdditionLine)
      ]_vars

\* "-a", the no-newline marker, "+x": one paired row at the final flush.
C12_Witness ==
    /\ pc = "return"
    /\ input = << LnDelA, LnNoNewline, LnAddX >>
    /\ Len(rows) = 1
    /\ IsPairRow(rows[1])

(***************************************************************************)
(* C13: when the input ends Parse flushes once more, so every '-' and '+'  *)
(* line still buffered is in the returned rows, also when the input ends   *)
(* inside a run of such lines.                                             *)
(***************************************************************************)
C13_FinalFlushDrains ==
    pc = "done" =>
        LET tail == SinceBoundary(input, Len(input))
            dels == SelectSeq(tail, DeletionLine)
            adds == SelectSeq(tail, AdditionLine)
            n == Max(Len(dels), Len(adds))
            base == Len(rows) - n
        IN  /\ pendingMinus = << >>
            /\ pendingPlus = << >>
            /\ base >= 0
            /\ \A k \in 1..Len(dels) :
                 /\ HasKind(rows[base + k].Left, LineKindDeletion)
                 /\ rows[base + k].Left[1].Content = dels[k]
            /\ \A k \in 1..Len(adds) :
                 /\ HasKind(rows[base + k].Right, LineKindAddition)
                 /\ rows[base + k].Right[1].Content = adds[k]

\* The input ended right after a context line and two deletions.
C13_Witness ==
    /\ pc = "done"
    /\ ~err
    /\ input = << LnCtx, LnDelA, LnDelB >>
    /\ Len(rows) = 3
    /\ rows[3].Left[1].Content = LnDelB

(***************************************************************************)
(* C14: Parse returns an error only when the reader reported a read        *)
(* failure; nothing about the content of the input, the length of a line   *)
(* included, makes it return one.                                          *)
(***************************************************************************)
C14_ErrorOnlyOnReadFailure ==
    (pc = "done" /\ err) => readErr

(***************************************************************************)
(* C15: when the reader fails part-way Parse returns an error together     *)
(* with the rows of every line read before the failure, those of the final *)
(* flush of the still pending lines included.                              *)
(***************************************************************************)
C15_RowsReturnedWithReadError ==
    [][/\ (pc = "final" /\ readErr)
          => /\ Len(rows') = Len(rows)
                               + Max(Len(pendingMinus), Len(pendingPlus))
             /\ SubSeq(rows', 1, Len(rows)) = rows
       /\ (pc = "return" /\ readErr) => (err' /\ rows' = rows)
       /\ (pc' = "done" /\ readErr')
          => /\ err'
             /\ OldContents(rows') = SelectSeq(input', OldContentLine)
             /\ NewContents(rows') = SelectSeq(input', NewContentLine)]_vars

\* The reader failed after a context line and a pending deletion.
C15_Witness ==
    /\ pc = "done"
    /\ readErr
    /\ err
    /\ input = << LnCtx, LnDelA >>
    /\ Len(rows) = 2
    /\ HasKind(rows[2].Left, LineKindDeletion)

(***************************************************************************)
(* C16: every returned row has a side present; a row with the old side     *)
(* alone holds a deletion, a row with the new side alone an addition, and  *)
(* a row with both sides is (context, context) or (header, header) with    *)
(* the same content on both sides, or (deletion, addition).                *)
(***************************************************************************)
RowShapeOk(r) ==
    /\ Present(r.Left) \/ Present(r.Right)
    /\ (Present(r.Left) /\ ~Present(r.Right))
          => r.Left[1].Kind = LineKindDeletion
    /\ (~Present(r.Left) /\ Present(r.Right))
          => r.Right[1].Kind = LineKindAddition
    /\ (Present(r.Left) /\ Present(r.Right))
          => \/ /\ IsContextRow(r)
                /\ r.Left[1].Content = r.Right[1].Content
             \/ /\ IsHeaderRow(r)
                /\ r.Left[1].Content = r.Right[1].Content
             \/ IsPairRow(r)

C16_RowShapes ==
    pc = "done" => \A i \in 1..Len(rows) : RowShapeOk(rows[i])

\* A returned result with a header row, a lone addition, a context row and
\* a lone deletion.
C16_Witness ==
    /\ pc = "done"
    /\ Len(rows) = 4
    /\ IsHeaderRow(rows[1])
    /\ ~Present(rows[2].Left) /\ Present(rows[2].Right)
    /\ IsContextRow(rows[3])
    /\ Present(rows[4].Left) /\ ~Present(rows[4].Right)

(***************************************************************************)
(* ui.RenderSide: the text of one column.  The output is the sequence of   *)
(* its lines (each ended by a newline in the Go string); a line is its     *)
(* text and the lipgloss style it was rendered with.                       *)
(***************************************************************************)
SideLeft == 0
SideRight == 1

RowForSide(row, side) == IF side = SideLeft THEN row.Left ELSE row.Right

\* strings.Repeat
Repeat(c, n) == [i \in 1..n |-> c]

\* strconv.Itoa, for n >= 0
RECURSIVE Itoa(_)
Itoa(n) ==
    LET d == << "0", "1", "2", "3", "4", "5", "6", "7", "8", "9" >>[(n % 10) + 1]
    IN  IF n < 10 THEN << d >> ELSE Append(Itoa(n \div 10), d)

RECURSIVE MaxNumber(_, _, _)
MaxNumber(rs, side, max) ==
    IF rs = << >> THEN max
    ELSE LET l == RowForSide(Head(rs), side)
         IN  MaxNumber(Tail(rs), side,
                       IF l # Nil /\ l[1].Number > max THEN l[1].Number
                                                         ELSE max)

LineNumberWidth(rs, side) ==
    LET max == MaxNumber(rs, side, 0)
    IN  IF max = 0 THEN 4
        ELSE IF Len(Itoa(max)) < 4 THEN 4 ELSE Len(Itoa(max))

\* fmt.Sprintf("%*s %s", width, number, content)
NumberedText(width, number, content) ==
    LET n == Itoa(number)
    IN  Repeat(" ", IF width > Len(n) THEN width - Len(n) ELSE 0)
          \o n \o << " " >> \o content

\* Variant: the color follows the kind of the line, whatever the side.
RenderLineAnySide(l, side, width, showLineNumbers) ==
    IF l = Nil
    THEN [style |-> "none",
          text |-> IF showLineNumbers THEN Repeat(" ", width + 1) ELSE << >>]
    ELSE LET text == IF showLineNumbers /\ l[1].Number > 0
                     THEN NumberedText(width, l[1].Number, l[1].Content)
                     ELSE l[1].Content
         IN  IF l[1].Kind = LineKindAddition
             THEN [style |-> "AddStyle", text |-> text]
             ELSE IF l[1].Kind = LineKindDeletion
             THEN [style |-> "DelStyle", text |-> text]
             ELSE [style |-> "none", text |-> text]

RenderLine(l, side, width, showLineNumbers) ==
    IF l = Nil
    THEN [style |-> "none",
          text |-> IF showLineNumbers THEN Repeat(" ", width + 1) ELSE << >>]
    ELSE LET text == IF showLineNumbers /\ l[1].Number > 0
                     THEN NumberedText(width, l[1].Number, l[1].Content)
                     ELSE l[1].Content
         IN  IF l[1].Kind = LineKindAddition /\ side = SideRight
             THEN [style |-> "AddStyle", text |-> text]
             ELSE IF l[1].Kind = LineKindDeletion /\ side = SideLeft
             THEN [style |-> "DelStyle", text |-> text]
             ELSE [style |-> "none", text |-> text]

\* separator + "\n" + header + "\n"
RenderHeader(content) ==
    << [style |-> "HeaderSeparatorStyle", text |-> Repeat("U+2500", 30)],
       [style |-> "HeaderLineStyle", text |-> content] >>

\* Variant: nothing is written for an absent side.
RenderRowSkipsNil(row, side, width, showLineNumbers) ==
    LET l == RowForSide(row, side)
    IN  IF l = Nil THEN << >>
        ELSE IF l[1].Kind = LineKindHeader
        THEN RenderHeader(l[1].Content)
        ELSE << RenderLine(l, side, width, showLineNumbers) >>

\* The body of the loop of RenderSide: the lines written for one row.
RenderRow(row, side, width, showLineNumbers) ==
    LET l == RowForSide(row, side)
    IN  IF l # Nil /\ l[1].Kind = LineKindHeader
        THEN RenderHeader(l[1].Content)
        ELSE << RenderLine(l, side, width, showLineNumbers) >>

RECURSIVE RenderRows(_, _, _, _)
RenderRows(rs, side, width, showLineNumbers) ==
    IF rs = << >> THEN << >>
    ELSE RenderRow(Head(rs), side, width, showLineNumbers)
           \o RenderRows(Tail(rs), side, width, showLineNumbers)

RenderSide(rs, side, showLineNumbers) ==
    RenderRows(rs, side,
               IF showLineNumbers THEN LineNumberWidth(rs, side) ELSE 0,
               showLineNumbers)

(***************************************************************************)
(* C17: for the rows Parse returns, the left and the right column have the *)
(* same number of lines after every prefix of the rows, one line for a     *)
(* row that is no header (a blank one for an absent side) and two for a    *)
(* header row, with line numbers shown or not.                             *)
(***************************************************************************)
C17_ColumnsSameHeight ==
    pc = "done" =>
        \A k \in 0..Len(rows) : \A show \in BOOLEAN :
            LET prefix == SubSeq(rows, 1, k)
                headers == Len(SelectSeq(prefix, IsHeaderRow))
                left == RenderSide(prefix, SideLeft, show)
                right == RenderSide(prefix, SideRight, show)
            IN  /\ Len(left) = Len(right)
                /\ Len(left) = (k - headers) + 2 * headers

\* Returned rows: a lone addition, a header row, a context row; the left
\* column has a blank first line and four lines in all.
C17_Witness ==
    /\ pc = "done"
    /\ Len(rows) = 3
    /\ ~Present(rows[1].Left) /\ Present(rows[1].Right)
    /\ IsHeaderRow(rows[2])
    /\ IsContextRow(rows[3])
    /\ Len(RenderSide(rows, SideLeft, TRUE)) = 4
    /\ RenderSide(rows, SideLeft, FALSE)[1].text = << >>

(***************************************************************************)
(* C18: renderLine gives the deletion style exactly to a deletion Line     *)
(* rendered on the left side and the addition style exactly to an addition *)
(* Line rendered on the right side; context and header Lines, an absent    *)
(* side, and a deletion or addition rendered on the other side get none.   *)
(***************************************************************************)
ExpectedStyle(l, side) ==
    IF HasKind(l, LineKindDeletion) /\ side = SideLeft THEN "DelStyle"
    ELSE IF HasKind(l, LineKindAddition) /\ side = SideRight THEN "AddStyle"
    ELSE "none"

C18_DiffColorBySide ==
    pc = "done" =>
        \A i \in 1..Len(rows) : \A l \in { rows[i].Left, rows[i].Right } :
            \A side \in { SideLeft, SideRight } : \A show \in BOOLEAN :
                RenderLine(l, side, LineNumberWidth(rows, side), show).style
                    = ExpectedStyle(l, side)

\* Returned rows hold a deletion, an addition, padding, a header and a
\* context Line; the deletion is plain when rendered on the right.
C18_Witness ==
    /\ pc = "done"
    /\ Len(rows) = 4
    /\ IsHeaderRow(rows[1])
    /\ ~Present(rows[2].Left) /\ Present(rows[2].Right)
    /\ IsContextRow(rows[3])
    /\ Present(rows[4].Left) /\ ~Present(rows[4].Right)
    /\ RenderLine(rows[4].Left, SideRight, 4, TRUE).style = "none"
    /\ RenderLine(rows[4].Left, SideLeft, 4, TRUE).style = "DelStyle"
    /\ RenderLine(rows[2].Right, SideRight, 4, TRUE).style = "AddStyle"

(***************************************************************************)
(* Two invocations of Parse running as concurrent commands.  Each call has *)
(* its own scanner and its own locals, which the flush closure captures;   *)
(* the variables of Parse hold the frame of the invocation that is         *)
(* running and `saved` the frame of the one that is not.                   *)
(***************************************************************************)
ConcInputLines ==
    { LnDelA, LnAddX, LnCtx, LnEmpty, LnHunk, LnDiff, LnNoNewline }

\* Variant: pendingMinus and pendingPlus are package variables, one pair
\* for all invocations.
SwitchSharesPending ==
    /\ saved' = [Frame EXCEPT !.pendingMinus = << >>, !.pendingPlus = << >>]
    /\ input' = saved.input
    /\ line' = saved.line
    /\ rows' = saved.rows
    /\ leftLineNum' = saved.leftLineNum
    /\ rightLineNum' = saved.rightLineNum
    /\ scanErr' = saved.scanErr
    /\ readErr' = saved.readErr
    /\ err' = saved.err
    /\ pc' = saved.pc
    /\ UNCHANGED <<pendingMinus, pendingPlus>>
    /\ UNCHANGED <<model, inflight, theme, find>>

\* The scheduler runs the goroutine of the other command.
Switch ==
    /\ saved' = Frame
    /\ input' = saved.input
    /\ line' = saved.line
    /\ rows' = saved.rows
    /\ pendingMinus' = saved.pendingMinus
    /\ pendingPlus' = saved.pendingPlus
    /\ leftLineNum' = saved.leftLineNum
    /\ rightLineNum' = saved.rightLineNum
    /\ scanErr' = saved.scanErr
    /\ readErr' = saved.readErr
    /\ err' = saved.err
    /\ pc' = saved.pc
    /\ UNCHANGED <<model, inflight, theme, find>>

\* The two readers deliver lines of ConcInputLines, ConcMaxLines in all.
ConcBounded ==
    /\ Len(input) + Len(saved.input) <= ConcMaxLines
    /\ \A i \in 1..Len(input) : input[i] \in ConcInputLines
    /\ \A i \in 1..Len(saved.input) : saved.input[i] \in ConcInputLines

ConcNext ==
    \/ ScanMetadata /\ ConcBounded'
    \/ ScanHunkHeader /\ ConcBounded'
    \/ ScanEmpty /\ ConcBounded'
    \/ ScanMinus /\ ConcBounded'
    \/ ScanPlus /\ ConcBounded'
    \/ ScanContext /\ ConcBounded'
    \/ ScanOther /\ ConcBounded'
    \/ ScanEOF
    \/ ScanFail
    \/ ScanTooLong
    \/ Flush
    \/ EmitHeader
    \/ EmitEmpty
    \/ EmitContext
    \/ FinalFlush
    \/ Return
    \/ Switch

ConcSpec == Init /\ [][ConcNext]_vars

(***************************************************************************)
(* Parse as a function of the lines its reader delivered: the scan loop    *)
(* folded over the lines, then the flush after the loop.                   *)
(***************************************************************************)
ParseLine(l, st) ==
    LET f == FlushState(st.pendingMinus, st.pendingPlus,
                        [rows |-> st.rows, left |-> st.left,
                         right |-> st.right])
        flushed == [rows |-> f.rows, left |-> f.left, right |-> f.right,
                    pendingMinus |-> << >>, pendingPlus |-> << >>]
    IN  IF IsMetadata(l) THEN st
        ELSE IF IsHunkHeader(l)
        THEN [flushed EXCEPT !.rows =
                 Append(f.rows, DiffRow(Ptr(DiffLine(l, LineKindHeader)),
                                        Ptr(DiffLine(l, LineKindHeader))))]
        ELSE IF Len(l) = 0
        THEN [flushed EXCEPT !.rows =
                                 Append(f.rows, ContextRow(<< >>, f.left, f.right)),
                             !.left = f.left + 1,
                             !.right = f.right + 1]
        ELSE IF l[1] = "-"
        THEN [st EXCEPT !.pendingMinus =
                            Append(@, DiffLine(l, LineKindDeletion))]
        ELSE IF l[1] = "+"
        THEN [st EXCEPT !.pendingPlus =
                            Append(@, DiffLine(l, LineKindAddition))]
        ELSE IF l[1] = " "
        THEN [flushed EXCEPT !.rows =
                                 Append(f.rows, ContextRow(l, f.left, f.right)),
                             !.left = f.left + 1,
                             !.right = f.right + 1]
        ELSE st

RECURSIVE ParseLines(_, _)
ParseLines(inp, st) ==
    IF inp = << >> THEN st ELSE ParseLines(Tail(inp), ParseLine(Head(inp), st))

ParseRows(inp) ==
    LET st == ParseLines(inp, [rows |-> << >>, left |-> 1, right |-> 1,
                               pendingMinus |-> << >>, pendingPlus |-> << >>])
    IN  FlushState(st.pendingMinus, st.pendingPlus,
                   [rows |-> st.rows, left |-> st.left,
                    right |-> st.right]).rows

\* Run alone, Parse returns ParseRows of the lines it was delivered.
ParseRowsIsSoloRun == pc = "done" => rows = ParseRows(input)

(***************************************************************************)
(* C19: of two invocations of Parse over independent readers whose steps   *)
(* interleave in any order, each returns the rows it returns when run      *)
(* alone on the lines its reader delivered, and an error exactly when its  *)
(* own scanner reported one.                                               *)
(***************************************************************************)
ReturnedAsAlone(f) ==
    f.pc = "done" => /\ f.rows = ParseRows(f.input)
                     /\ f.err = f.scanErr

C19_InterleavedParseAsAlone == ReturnedAsAlone(Frame) /\ ReturnedAsAlone(saved)

\* One invocation is suspended in its scan loop with a deletion and an
\* addition buffered while the other has flushed, emitted a context row
\* and returned.
C19_Witness ==
    /\ pc = "done"
    /\ Len(rows) = 1
    /\ IsContextRow(rows[1])
    /\ saved.pc = "scan"
    /\ Len(saved.pendingMinus) = 1
    /\ Len(saved.pendingPlus) = 1

(***************************************************************************)
(* The application (main.go): the Bubble Tea model and its Update.         *)
(*                                                                         *)
(* Strings that are searched or typed are sequences of one-character       *)
(* strings; Go indices are kept 0-based in the fields that hold them.      *)
(***************************************************************************)
focusFileList == 0
focusDiff == 1

\* A nil error.
NoError == "nil"

\* ui.ListThemes()
ListThemes ==
    << "dark", "light", "high-contrast", "solarized", "dracula", "github",
       "catppuccin", "tokyo-night", "one-dark" >>

(***************************************************************************)
(* viewport.Model of bubbles; lines is len(m.lines).                       *)
(***************************************************************************)
\* The zero value, before viewport.New.
ZeroViewport ==
    [Width |-> 0, Height |-> 0, YOffset |-> 0, lines |-> 0,
     KeyMap |-> FALSE, MouseWheelEnabled |-> FALSE]

\* viewport.New(width, height): default key map, mouse wheel enabled.
ViewportNew(width, height) ==
    [Width |-> width, Height |-> height, YOffset |-> 0, lines |-> 0,
     KeyMap |-> TRUE, MouseWheelEnabled |-> TRUE]

MaxYOffset(v) == IF v.lines - v.Height > 0 THEN v.lines - v.Height ELSE 0

SetYOffset(v, n) ==
    [v EXCEPT !.YOffset = IF n < 0 THEN 0
                          ELSE IF n > MaxYOffset(v) THEN MaxYOffset(v)
                          ELSE n]

\* SetContent(s) for a string s of n lines, each ended by a newline, or of
\* one line without a newline when n = 0: strings.Split gives n + 1 lines.
SetContent(v, n) ==
    LET w == [v EXCEPT !.lines = n + 1]
    IN  IF w.YOffset > w.lines - 1 THEN SetYOffset(w, MaxYOffset(w)) ELSE w

AtTop(v) == v.YOffset <= 0

AtBottom(v) == v.YOffset >= MaxYOffset(v)

LineDown(v, n) ==
    IF AtBottom(v) \/ n = 0 \/ v.lines = 0 THEN v
    ELSE SetYOffset(v, v.YOffset + n)

LineUp(v, n) ==
    IF AtTop(v) \/ n = 0 \/ v.lines = 0 THEN v
    ELSE SetYOffset(v, v.YOffset - n)

ViewDown(v) == IF AtBottom(v) THEN v ELSE LineDown(v, v.Height)

\* viewport.Update: the keys of the default key map that the messages of
\* the model use, and the mouse wheel (three lines a notch).
ViewportUpdate(v, msg) ==
    IF msg.type = "KeyMsg" /\ v.KeyMap
    THEN IF msg.key = "pgdown" THEN ViewDown(v)
         ELSE IF msg.key \in { "down", "j" } THEN LineDown(v, 1)
         ELSE IF msg.key \in { "up", "k" } THEN LineUp(v, 1)
         ELSE v
    ELSE IF msg.type = "MouseMsg" /\ v.MouseWheelEnabled
    THEN IF msg.key = "wheel up" THEN LineUp(v, 3)
         ELSE IF msg.key = "wheel down" THEN LineDown(v, 3)
         ELSE v
    ELSE v

(***************************************************************************)
(* textinput.Model of bubbles: the value, with the cursor at its end.      *)
(***************************************************************************)
InputReset(ti) == [ti EXCEPT !.value = << >>]

InputFocus(ti) == [ti EXCEPT !.focus = TRUE]

\* textinput.Update: a key of runes is inserted, backspace deletes.
InputUpdate(ti, msg) ==
    IF ~ti.focus THEN ti
    ELSE IF msg.runes /\ Len(ti.value) < ti.CharLimit
    THEN [ti EXCEPT !.value = Append(@, msg.key)]
    ELSE IF msg.key = "backspace" /\ Len(ti.value) > 0
    THEN [ti EXCEPT !.value = SubSeq(@, 1, Len(@) - 1)]
    ELSE ti

(***************************************************************************)
(* search.SearchInRows and search.GetMatchPosition                        *)
(***************************************************************************)
UpperCase ==
    << "A", "B", "C", "D", "E", "F", "G", "H", "I", "J", "K", "L", "M",
       "N", "O", "P", "Q", "R", "S", "T", "U", "V", "W", "X", "Y", "Z" >>

LowerCase ==
    << "a", "b", "c", "d", "e", "f", "g", "h", "i", "j", "k", "l", "m",
       "n", "o", "p", "q", "r", "s", "t", "u", "v", "w", "x", "y", "z" >>

\* strings.ToLower
ToLower(s) ==
    [i \in 1..Len(s) |->
        IF \E j \in 1..Len(UpperCase) : UpperCase[j] = s[i]
        THEN LowerCase[CHOOSE j \in 1..Len(UpperCase) : UpperCase[j] = s[i]]
        ELSE s[i]]

\* strings.Index(s, substr): the first 0-based position, or -1.
Index(s, substr) ==
    LET at == { i \in 0..(Len(s) - Len(substr)) :
                  SubSeq(s, i + 1, i + Len(substr)) = substr }
    IN  IF at = { } THEN -1 ELSE CHOOSE i \in at : \A j \in at : i <= j

\* Variant: the scan resumes one column after the start of a match.
RECURSIVE OccurrencesOverlapping(_, _, _)
OccurrencesOverlapping(searchContent, lowerQuery, startPos) ==
    LET pos == Index(SubSeq(searchContent, startPos + 1, Len(searchContent)),
                     lowerQuery)
        actualPos == startPos + pos
    IN  IF pos = -1 THEN << >>
        ELSE << actualPos >>
               \o OccurrencesOverlapping(searchContent, lowerQuery,
                                         actualPos + 1)

\* The inner loop: the columns of the occurrences from startPos on.
RECURSIVE Occurrences(_, _, _)
Occurrences(searchContent, lowerQuery, startPos) ==
    LET pos == Index(SubSeq(searchContent, startPos + 1, Len(searchContent)),
                     lowerQuery)
        actualPos == startPos + pos
    IN  IF pos = -1 THEN << >>
        ELSE << actualPos >>
               \o Occurrences(searchContent, lowerQuery,
                              actualPos + Len(lowerQuery))

\* Variant: the case is ignored whatever caseSensitive says.
SideMatchesIgnoreCase(l, side, rowIdx, query, fileName, caseSensitive) ==
    IF l # Nil /\ l[1].Kind # LineKindHeader
    THEN LET content == l[1].Content
             cols == Occurrences(ToLower(content), ToLower(query), 0)
         IN  [i \in 1..Len(cols) |->
                 [FileName |-> fileName, RowIndex |-> rowIdx, Side |-> side,
                  LineNumber |-> l[1].Number, Column |-> cols[i],
                  Length |-> Len(query), Content |-> content]]
    ELSE << >>

\* The matches of one side of one row.
SideMatches(l, side, rowIdx, query, fileName, caseSensitive) ==
    IF l # Nil /\ l[1].Kind # LineKindHeader
    THEN LET content == l[1].Content
             searchContent == IF caseSensitive THEN content
                                               ELSE ToLower(content)
             lowerQuery == IF caseSensitive THEN query ELSE ToLower(query)
             cols == Occurrences(searchContent, lowerQuery, 0)
         IN  [i \in 1..Len(cols) |->
                 [FileName |-> fileName, RowIndex |-> rowIdx, Side |-> side,
                  LineNumber |-> l[1].Number, Column |-> cols[i],
                  Length |-> Len(query), Content |-> content]]
    ELSE << >>

RECURSIVE SearchFrom(_, _, _, _, _)
SearchFrom(rs, rowIdx, query, fileName, caseSensitive) ==
    IF rowIdx >= Len(rs) THEN << >>
    ELSE SideMatches(rs[rowIdx + 1].Left, "left", rowIdx, query, fileName,
                     caseSensitive)
           \o SideMatches(rs[rowIdx + 1].Right, "right", rowIdx, query,
                          fileName, caseSensitive)
           \o SearchFrom(rs, rowIdx + 1, query, fileName, caseSensitive)

SearchInRows(rs, query, fileName, caseSensitive) ==
    IF query = << >> THEN << >>
    ELSE SearchFrom(rs, 0, query, fileName, caseSensitive)

GetMatchPosition(match) == match.RowIndex

(***************************************************************************)
(* Commands and messages.                                                  *)
(***************************************************************************)
CmdNil == [type |-> "nil", filepath |-> "", fullContext |-> FALSE]

\* tea.Quit
CmdQuit == [type |-> "quit", filepath |-> "", fullContext |-> FALSE]

LoadFilesCmd == [type |-> "loadFiles", filepath |-> "", fullContext |-> FALSE]

LoadFileDiffCmd(filepath, fullContext) ==
    [type |-> "loadFileDiff", filepath |-> filepath,
     fullContext |-> fullContext]

\* A key whose msg.String() is k; runes tells a key of type KeyRunes.
KeyMsg(k, runes) == [type |-> "KeyMsg", key |-> k, runes |-> runes]

MouseMsg(k) == [type |-> "MouseMsg", key |-> k]

WindowSizeMsg(w, h) == [type |-> "WindowSizeMsg", Width |-> w, Height |-> h]

FilesLoadedMsg(files, e) == [type |-> "filesLoadedMsg", files |-> files, err |-> e]

FileDiffLoadedMsg(rs, e) ==
    [type |-> "fileDiffLoadedMsg", rows |-> rs, err |-> e]

(***************************************************************************)
(* What a case of Update hands back: the model, the command, whether the   *)
(* case left the switch without returning, and the theme it activated.     *)
(***************************************************************************)
Returns(mm, c) == [m |-> mm, cmd |-> c, returned |-> TRUE, theme |-> ""]

FallsThrough(mm) == [m |-> mm, cmd |-> CmdNil, returned |-> FALSE, theme |-> ""]

\* The model main() hands to tea.NewProgram.
InitialModel(showLineNumbers, fullContext, initialFile, themeIdx) ==
    [ready |-> FALSE, winWidth |-> 0, winHeight |-> 0, err |-> NoError,
     files |-> << >>, selectedFile |-> 0, fileListView |-> ZeroViewport,
     focus |-> focusFileList,
     currentRows |-> << >>, leftView |-> ZeroViewport,
     rightView |-> ZeroViewport,
     showLineNumbers |-> showLineNumbers, fullContext |-> fullContext,
     diffMode |-> "all", initialFile |-> initialFile,
     currentThemeIdx |-> themeIdx, themeChangeMsg |-> << >>,
     themeChangeTicks |-> 0,
     searchMode |-> FALSE,
     searchInput |-> [value |-> << >>, focus |-> FALSE, CharLimit |-> 100],
     searchMatches |-> << >>, currentMatchIdx |-> -1,
     searchInAllFiles |-> TRUE]

\* ui.RenderFileList: one line, ended by a newline, for every file; the text
\* "No modified files" without a newline when there is none.
FileListLines(files) == Len(files)

\* leftView.SetContent(RenderSide(.., SideLeft, ..)) and the same on the
\* right; the search highlights change no line break.
SetDiffContent(mm) ==
    [mm EXCEPT
        !.leftView = SetContent(@, Len(RenderSide(mm.currentRows, SideLeft,
                                                  mm.showLineNumbers))),
        !.rightView = SetContent(@, Len(RenderSide(mm.currentRows, SideRight,
                                                   mm.showLineNumbers)))]

RefreshDiff(mm) == IF Len(mm.currentRows) > 0 THEN SetDiffContent(mm) ELSE mm

SelectedPath(mm) ==
    IF Len(mm.files) > 0 /\ mm.selectedFile >= 0
          /\ mm.selectedFile < Len(mm.files)
    THEN mm.files[mm.selectedFile + 1].Path
    ELSE ""

\* Both panes are scrolled to the row of the match.
ScrollToMatch(mm, match) ==
    [mm EXCEPT !.leftView.YOffset = GetMatchPosition(match),
               !.rightView.YOffset = GetMatchPosition(match)]

performSearch(mm) ==
    LET query == mm.searchInput.value
        found == SearchInRows(mm.currentRows, query, SelectedPath(mm), FALSE)
        m1 == IF query = << >>
              THEN [mm EXCEPT !.searchMatches = << >>, !.currentMatchIdx = -1]
              ELSE IF Len(mm.currentRows) > 0
              THEN IF Len(found) > 0
                   THEN ScrollToMatch([mm EXCEPT !.searchMatches = found,
                                                 !.currentMatchIdx = 0],
                                      found[1])
                   ELSE [mm EXCEPT !.searchMatches = found,
                                   !.currentMatchIdx = -1]
              ELSE mm
    IN  RefreshDiff(m1)

\* case tea.KeyMsg, if m.searchMode
KeySearchMode(mm, msg) ==
    IF msg.key = "esc"
    THEN Returns([mm EXCEPT !.searchMode = FALSE,
                            !.searchInput = InputReset(@)], CmdNil)
    ELSE IF msg.key = "enter"
    THEN Returns([mm EXCEPT !.searchMode = FALSE], CmdNil)
    ELSE Returns(performSearch([mm EXCEPT !.searchInput =
                                              InputUpdate(@, msg)]), CmdNil)

\* case "esc"
KeyEsc(mm) ==
    IF mm.searchMode
    THEN Returns([mm EXCEPT !.searchMode = FALSE,
                            !.searchInput = InputReset(@)], CmdNil)
    ELSE IF Len(mm.searchMatches) > 0 \/ mm.searchInput.value # << >>
    THEN Returns(RefreshDiff([mm EXCEPT !.searchMatches = << >>,
                                        !.currentMatchIdx = -1,
                                        !.searchInput = InputReset(@)]),
                 CmdNil)
    ELSE Returns(mm, CmdQuit)

\* case "/"
KeySlash(mm) ==
    Returns([mm EXCEPT !.searchMode = TRUE,
                       !.searchInput = InputReset(InputFocus(@))], CmdNil)

\* Variant: the match after the last one is no match: the index runs on.
KeyNPastLast(mm) ==
    IF Len(mm.searchMatches) > 0 /\ mm.currentMatchIdx >= 0
    THEN LET idx == mm.currentMatchIdx + 1
         IN  Returns([mm EXCEPT !.currentMatchIdx = idx], CmdNil)
    ELSE LET m1 == RefreshDiff([mm EXCEPT !.showLineNumbers = ~@])
         IN  Returns(m1, CmdNil)

\* Variant: toggling the line numbers fetches the diff again.
KeyNReloads(mm) ==
    IF Len(mm.searchMatches) > 0 /\ mm.currentMatchIdx >= 0
    THEN LET idx == (mm.currentMatchIdx + 1) % Len(mm.searchMatches)
         IN  Returns(ScrollToMatch([mm EXCEPT !.currentMatchIdx = idx],
                                   mm.searchMatches[idx + 1]), CmdNil)
    ELSE LET m1 == RefreshDiff([mm EXCEPT !.showLineNumbers = ~@])
         IN  IF SelectedPath(m1) # ""
             THEN Returns(m1, LoadFileDiffCmd(SelectedPath(m1), m1.fullContext))
             ELSE Returns(m1, CmdNil)

\* Variant: n toggles the line numbers whether or not a match is current.
KeyNAlwaysToggles(mm) ==
    LET m1 == [mm EXCEPT !.showLineNumbers = ~@]
    IN  IF Len(mm.searchMatches) > 0 /\ mm.currentMatchIdx >= 0
        THEN LET idx == (mm.currentMatchIdx + 1) % Len(mm.searchMatches)
             IN  Returns(ScrollToMatch([m1 EXCEPT !.currentMatchIdx = idx],
                                       mm.searchMatches[idx + 1]), CmdNil)
        ELSE Returns(RefreshDiff(m1), CmdNil)

\* Variant: the next match scrolls the left pane only.
KeyNLeftOnly(mm) ==
    IF Len(mm.searchMatches) > 0 /\ mm.currentMatchIdx >= 0
    THEN LET idx == (mm.currentMatchIdx + 1) % Len(mm.searchMatches)
         IN  Returns([mm EXCEPT !.currentMatchIdx = idx,
                                !.leftView.YOffset =
                                    GetMatchPosition(mm.searchMatches[idx + 1])],
                     CmdNil)
    ELSE Returns(RefreshDiff([mm EXCEPT !.showLineNumbers = ~@]), CmdNil)

\* case "n"
KeyN(mm) ==
    IF Len(mm.searchMatches) > 0 /\ mm.currentMatchIdx >= 0
    THEN LET idx == (mm.currentMatchIdx + 1) % Len(mm.searchMatches)
         IN  Returns(ScrollToMatch([mm EXCEPT !.currentMatchIdx = idx],
                                   mm.searchMatches[idx + 1]), CmdNil)
    ELSE Returns(RefreshDiff([mm EXCEPT !.showLineNumbers = ~@]), CmdNil)

\* Variant: the previous match stops at the first match instead of wrapping.
KeyShiftNNoWrap(mm) ==
    IF Len(mm.searchMatches) > 0 /\ mm.currentMatchIdx >= 0
    THEN LET idx == IF mm.currentMatchIdx - 1 < 0
                    THEN 0
                    ELSE mm.currentMatchIdx - 1
         IN  Returns(ScrollToMatch([mm EXCEPT !.currentMatchIdx = idx],
                                   mm.searchMatches[idx + 1]), CmdNil)
    ELSE Returns(mm, CmdNil)

\* case "N"
KeyShiftN(mm) ==
    IF Len(mm.searchMatches) > 0 /\ mm.currentMatchIdx >= 0
    THEN LET idx == IF mm.currentMatchIdx - 1 < 0
                    THEN Len(mm.searchMatches) - 1
                    ELSE mm.currentMatchIdx - 1
         IN  Returns(ScrollToMatch([mm EXCEPT !.currentMatchIdx = idx],
                                   mm.searchMatches[idx + 1]), CmdNil)
    ELSE Returns(mm, CmdNil)

\* case "c"
KeyC(mm) ==
    LET m1 == [mm EXCEPT !.fullContext = ~@]
    IN  IF Len(m1.files) > 0 /\ m1.selectedFile >= 0
              /\ m1.selectedFile < Len(m1.files)
        THEN Returns(m1, LoadFileDiffCmd(m1.files[m1.selectedFile + 1].Path,
                                         m1.fullContext))
        ELSE Returns(m1, CmdNil)

\* Variant: after the last theme t stays on the last theme.
KeyTStopsAtLast(mm) ==
    LET idx == IF mm.currentThemeIdx + 1 < Len(ListThemes)
               THEN mm.currentThemeIdx + 1
               ELSE mm.currentThemeIdx
        newTheme == ListThemes[idx + 1]
        m1 == RefreshDiff([mm EXCEPT !.currentThemeIdx = idx,
                                     !.themeChangeMsg = << "Theme: ", newTheme >>,
                                     !.themeChangeTicks = 3])
        m2 == IF Len(m1.files) > 0 /\ m1.ready
              THEN [m1 EXCEPT !.fileListView =
                                  SetContent(@, FileListLines(m1.files))]
              ELSE m1
    IN  [Returns(m2, CmdNil) EXCEPT !.theme = newTheme]

\* case "t"
KeyT(mm) ==
    LET idx == (mm.currentThemeIdx + 1) % Len(ListThemes)
        newTheme == ListThemes[idx + 1]
        m1 == RefreshDiff([mm EXCEPT !.currentThemeIdx = idx,
                                     !.themeChangeMsg = << "Theme: ", newTheme >>,
                                     !.themeChangeTicks = 3])
        m2 == IF Len(m1.files) > 0 /\ m1.ready
              THEN [m1 EXCEPT !.fileListView =
                                  SetContent(@, FileListLines(m1.files))]
              ELSE m1
    IN  [Returns(m2, CmdNil) EXCEPT !.theme = newTheme]

\* case "tab"
KeyTab(mm) ==
    Returns([mm EXCEPT !.focus = IF @ = focusFileList THEN focusDiff
                                                      ELSE focusFileList],
            CmdNil)

\* Variant: at the last file j goes round to the first.
KeyDownWraps(mm) ==
    IF mm.focus = focusFileList /\ Len(mm.files) > 0
    THEN LET sel == (mm.selectedFile + 1) % Len(mm.files)
         IN  Returns([mm EXCEPT !.selectedFile = sel],
                     LoadFileDiffCmd(mm.files[sel + 1].Path, mm.fullContext))
    ELSE FallsThrough(mm)

\* case "j", "down"
KeyDown(mm) ==
    IF mm.focus = focusFileList /\ Len(mm.files) > 0
    THEN IF mm.selectedFile < Len(mm.files) - 1
         THEN Returns([mm EXCEPT !.selectedFile = @ + 1],
                      LoadFileDiffCmd(mm.files[mm.selectedFile + 2].Path,
                                      mm.fullContext))
         ELSE Returns(mm, CmdNil)
    ELSE FallsThrough(mm)

\* Variant: the selection moves up from the first file too.
KeyUpPastFirst(mm) ==
    IF mm.focus = focusFileList /\ Len(mm.files) > 0
    THEN LET m1 == [mm EXCEPT !.selectedFile = @ - 1]
         IN  Returns(m1, LoadFileDiffCmd(SelectedPath(m1), m1.fullContext))
    ELSE FallsThrough(mm)

\* case "k", "up"
KeyUp(mm) ==
    IF mm.focus = focusFileList /\ Len(mm.files) > 0
    THEN IF mm.selectedFile > 0
         THEN Returns([mm EXCEPT !.selectedFile = @ - 1],
                      LoadFileDiffCmd(mm.files[mm.selectedFile].Path,
                                      mm.fullContext))
         ELSE Returns(mm, CmdNil)
    ELSE FallsThrough(mm)

\* case tea.KeyMsg
Key(mm, msg) ==
    IF mm.searchMode THEN KeySearchMode(mm, msg)
    ELSE IF msg.key \in { "ctrl+c", "q" } THEN Returns(mm, CmdQuit)
    ELSE IF msg.key = "esc" THEN KeyEsc(mm)
    ELSE IF msg.key = "/" THEN KeySlash(mm)
    ELSE IF msg.key = "n" THEN KeyN(mm)
    ELSE IF msg.key = "N" THEN KeyShiftN(mm)
    ELSE IF msg.key = "c" THEN KeyC(mm)
    ELSE IF msg.key = "t" THEN KeyT(mm)
    ELSE IF msg.key = "tab" THEN KeyTab(mm)
    ELSE IF msg.key \in { "j", "down" } THEN KeyDown(mm)
    ELSE IF msg.key \in { "k", "up" } THEN KeyUp(mm)
    ELSE FallsThrough(mm)

\* Variant: the first file is selected whatever --file names.
InitialSelectionFirst(files, initialFile) == 0

\* The file selected when the list arrives: the one named by --file, if any.
InitialSelection(files, initialFile) ==
    LET at == { i \in 0..(Len(files) - 1) : files[i + 1].Path = initialFile }
    IN  IF initialFile # "" /\ at # { }
        THEN CHOOSE i \in at : \A j \in at : i <= j
        ELSE 0

NoFilesError(diffMode) ==
    IF diffMode = "staged" THEN "No staged changes found."
    ELSE IF diffMode = "unstaged" THEN "No unstaged changes found."
    ELSE "No changes found in the repository."

\* case filesLoadedMsg
FilesLoaded(mm, msg) ==
    LET m1 == [mm EXCEPT !.files = msg.files, !.err = msg.err]
        m2 == IF m1.err = NoError /\ Len(m1.files) = 0
              THEN [m1 EXCEPT !.err = NoFilesError(m1.diffMode)]
              ELSE m1
        m3 == IF m2.ready
              THEN [m2 EXCEPT !.fileListView =
                                  SetContent(@, FileListLines(m2.files))]
              ELSE m2
        m4 == [m3 EXCEPT !.selectedFile =
                             InitialSelection(m3.files, m3.initialFile)]
    IN  IF m2.err = NoError /\ Len(m2.files) > 0
        THEN Returns(m4, LoadFileDiffCmd(m4.files[m4.selectedFile + 1].Path,
                                         m4.fullContext))
        ELSE Returns(m2, CmdNil)

\* Variant: the new diff is shown at the scroll position of the old one.
FileDiffLoadedKeepsScroll(mm, msg) ==
    IF msg.err # NoError THEN Returns([mm EXCEPT !.err = msg.err], CmdNil)
    ELSE LET m1 == SetDiffContent([mm EXCEPT !.currentRows = msg.rows,
                                             !.err = NoError])
         IN  Returns(IF Len(m1.files) > 0
                     THEN [m1 EXCEPT !.fileListView =
                                         SetContent(@, FileListLines(m1.files))]
                     ELSE m1, CmdNil)

\* case fileDiffLoadedMsg
FileDiffLoaded(mm, msg) ==
    IF msg.err # NoError THEN Returns([mm EXCEPT !.err = msg.err], CmdNil)
    ELSE LET m1 == SetDiffContent([mm EXCEPT !.currentRows = msg.rows,
                                             !.err = NoError])
             m2 == IF Len(m1.files) > 0
                   THEN [m1 EXCEPT !.fileListView =
                                       SetContent(@, FileListLines(m1.files))]
                   ELSE m1
         IN  Returns([m2 EXCEPT !.leftView.YOffset = 0,
                                !.rightView.YOffset = 0], CmdNil)

\* case tea.WindowSizeMsg
WindowSize(mm, msg) ==
    LET verticalMarginHeight == 3 + 3
        sidebar == (msg.Width * 20) \div 100
        diffPane == (msg.Width * 40) \div 100
        sidebarWidth == IF sidebar > 4 THEN sidebar - 4 ELSE sidebar
        diffPaneWidth == IF diffPane > 2 THEN diffPane - 2 ELSE diffPane
        height == msg.Height - verticalMarginHeight
        m1 == [mm EXCEPT !.winWidth = msg.Width, !.winHeight = msg.Height]
        m2 == IF ~m1.ready
              THEN [m1 EXCEPT !.ready = TRUE,
                              !.fileListView = ViewportNew(sidebarWidth, height),
                              !.leftView = ViewportNew(diffPaneWidth, height),
                              !.rightView = ViewportNew(diffPaneWidth, height)]
              ELSE [m1 EXCEPT !.fileListView.Width = sidebarWidth,
                              !.fileListView.Height = height,
                              !.leftView.Width = diffPaneWidth,
                              !.leftView.Height = height,
                              !.rightView.Width = diffPaneWidth,
                              !.rightView.Height = height]
        m3 == IF Len(m2.files) > 0
              THEN [m2 EXCEPT !.fileListView =
                                  SetContent(@, FileListLines(m2.files))]
              ELSE m2
    IN  FallsThrough(m3)

\* After the switch: the viewports see the message, the right pane takes
\* the offset of the left one, the theme notice counts down.
UpdateViewports(mm, msg) ==
    LET left == ViewportUpdate(mm.leftView, msg)
        right == ViewportUpdate(mm.rightView, msg)
        m1 == IF mm.focus = focusFileList
              THEN [mm EXCEPT !.fileListView = ViewportUpdate(@, msg)]
              ELSE [mm EXCEPT !.leftView = left,
                              !.rightView =
                                  [right EXCEPT !.YOffset = left.YOffset]]
    IN  IF m1.themeChangeTicks > 0
        THEN [m1 EXCEPT !.themeChangeTicks = @ - 1,
                        !.themeChangeMsg =
                            IF m1.themeChangeTicks = 1 THEN << >> ELSE @]
        ELSE m1

\* func (m model) Update(msg tea.Msg) (tea.Model, tea.Cmd)
Update(mm, msg) ==
    LET r == IF msg.type = "KeyMsg" THEN Key(mm, msg)
             ELSE IF msg.type = "filesLoadedMsg" THEN FilesLoaded(mm, msg)
             ELSE IF msg.type = "fileDiffLoadedMsg"
             THEN FileDiffLoaded(mm, msg)
             ELSE IF msg.type = "WindowSizeMsg" THEN WindowSize(mm, msg)
             ELSE FallsThrough(mm)
    IN  IF r.returned THEN r
        ELSE [r EXCEPT !.m = UpdateViewports(r.m, msg), !.returned = TRUE]

(***************************************************************************)
(* The program: the runtime feeds Update the keys, mouse events and window *)
(* sizes of the terminal and the results of the commands Update returned,  *)
(* which run concurrently and finish in any order.                         *)
(***************************************************************************)
Keys ==
    { "ctrl+c", "q", "esc", "/", "n", "N", "c", "t", "tab", "j", "down",
      "k", "up", "enter", "backspace", "pgdown", "a", "x" }

RuneKeys == { "q", "/", "n", "N", "c", "t", "j", "k", "a", "x" }

\* The characters the user types into the search input.
TypedKeys == { "a", "x" }

\* The keys the user presses: no theme change, and in search mode no other
\* characters than TypedKeys.
Pressed(mm) ==
    IF mm.searchMode THEN (Keys \ RuneKeys) \cup TypedKeys
                     ELSE Keys \ { "t" }

\* The size the terminal reports, at the start and whenever it is resized.
WindowSizes == { WindowSizeMsg(100, 10) }

\* The repository: two modified files.
GitFiles == << [Path |-> "a.go"], [Path |-> "b.go"] >>

\* The values of the --file flag.
InitialFiles == { "" }

\* git diff of a file, with default and with full context; b.go is so
\* short that both show all of it.
GitDiff(filepath, fullContext) ==
    IF filepath = "a.go"
    THEN IF fullContext
         THEN << LnDiff, LnHunk, LnCtx, LnDelA, LnCtx, LnDelA, LnAddX >>
         ELSE << LnDiff, LnHunk, LnDelA, LnCtx, LnDelA, LnAddX >>
    ELSE << LnDiff, LnHunk, LnAddX >>

LoadCmds ==
    { LoadFilesCmd }
        \cup { LoadFileDiffCmd(GitFiles[i].Path, b) :
                   i \in 1..Len(GitFiles), b \in BOOLEAN }

\* The messages a command can end with.
Results(c) ==
    IF c.type = "loadFiles"
    THEN { FilesLoadedMsg(GitFiles, NoError), FilesLoadedMsg(<< >>, NoError),
           FilesLoadedMsg(<< >>, "running git diff --numstat") }
    ELSE { FileDiffLoadedMsg(ParseRows(GitDiff(c.filepath, c.fullContext)),
                             NoError),
           FileDiffLoadedMsg(<< >>, "running git diff") }

RECURSIVE SumOver(_, _)
SumOver(f, S) ==
    IF S = { } THEN 0
    ELSE LET c == CHOOSE x \in S : TRUE IN f[c] + SumOver(f, S \ { c })

Outstanding(f) == SumOver(f, LoadCmds)

\* The commands running once Update has answered with cmd a message that
\* the command done produced (CmdNil: a message of the terminal).
Launched(cmd, done) ==
    LET rest == IF done \in LoadCmds THEN [inflight EXCEPT ![done] = @ - 1]
                                     ELSE inflight
    IN  IF cmd \in LoadCmds THEN [rest EXCEPT ![cmd] = @ + 1] ELSE rest

\* Update handles msg while at most maxRunning commands run.  With tea.Quit
\* the program ends: no state follows.
StepWithin(msg, done, maxRunning) ==
    \E r \in { Update(model, msg) } :
        /\ r.cmd # CmdQuit
        /\ Outstanding(Launched(r.cmd, done)) <= maxRunning
        /\ Len(r.m.searchInput.value) <= MaxQuery
        /\ model' = r.m
        /\ inflight' = Launched(r.cmd, done)
        /\ theme' = IF r.theme # "" THEN r.theme ELSE theme
        /\ UNCHANGED <<parseVars, saved, find>>

Step(msg, done) == StepWithin(msg, done, MaxInflight)

KeyPress == \E k \in Pressed(model) : Step(KeyMsg(k, k \in RuneKeys), CmdNil)

Mouse == \E k \in { "wheel up", "wheel down" } : Step(MouseMsg(k), CmdNil)

Resize == \E msg \in WindowSizes : Step(msg, CmdNil)

Deliver ==
    \E c \in LoadCmds :
        /\ inflight[c] > 0
        /\ \E msg \in Results(c) : Step(msg, c)

\* m.Init() returns loadFilesCmd.
ModelInit == [c \in LoadCmds |-> IF c = LoadFilesCmd THEN 1 ELSE 0]

UIInit ==
    /\ input = << >>
    /\ line = << >>
    /\ rows = << >>
    /\ pendingMinus = << >>
    /\ pendingPlus = << >>
    /\ leftLineNum = 1
    /\ rightLineNum = 1
    /\ scanErr = FALSE
    /\ readErr = FALSE
    /\ err = FALSE
    /\ pc = "scan"
    /\ saved = StartFrame
    /\ \E ln \in BOOLEAN, fc \in BOOLEAN, f \in InitialFiles :
           model = InitialModel(ln, fc, f, 0)
    /\ inflight = ModelInit
    /\ theme = ListThemes[1]
    /\ find = << >>

UINext == KeyPress \/ Mouse \/ Resize \/ Deliver

UISpec == UIInit /\ [][UINext]_vars

\* Messages the steps of the program leave out: the theme key (a typed
\* character in search mode) and a window of another size.
Unsent == { KeyMsg("t", TRUE), WindowSizeMsg(80, 8) }

PanesTogether(mm) == mm.rightView.YOffset = mm.leftView.YOffset

(***************************************************************************)
(* C20: in every state of the application the right diff pane has the      *)
(* scroll offset of the left one: Update, whatever the message and the     *)
(* focus, search and error state, never leaves them apart.                 *)
(***************************************************************************)
C20_PanesScrollTogether ==
    /\ PanesTogether(model)
    /\ \A msg \in Unsent : PanesTogether(Update(model, msg).m)

\* Outside search mode, with the diff focused, the panes were scrolled to
\* the row of the second match and show a file longer than their height.
C20_Witness ==
    /\ model.focus = focusDiff
    /\ ~model.searchMode
    /\ model.err = NoError
    /\ model.currentMatchIdx = 1
    /\ model.leftView.YOffset = GetMatchPosition(model.searchMatches[2])
    /\ model.leftView.YOffset > 0
    /\ model.rightView.YOffset = model.leftView.YOffset
    /\ model.leftView.lines > model.leftView.Height

\* The keys the controls list for leaving the application.
QuitKeys == { "q", "esc", "ctrl+c" }

(***************************************************************************)
(* C21: in every state of the application each of the keys q, esc and      *)
(* ctrl+c makes Update return the quit command.                            *)
(***************************************************************************)
C21_QuitKeysQuit ==
    \A k \in QuitKeys : Update(model, KeyMsg(k, k \in RuneKeys)).cmd = CmdQuit

\* A match is current: there are matches and the index points at one.
HasCurrentMatch(mm) == Len(mm.searchMatches) > 0 /\ mm.currentMatchIdx >= 0

(***************************************************************************)
(* C22: outside search mode the key n, when a match is current, moves to   *)
(* the next match and leaves showLineNumbers as it is; otherwise it        *)
(* toggles showLineNumbers, and a second press restores the setting.       *)
(***************************************************************************)
C22_NextMatchOrToggle ==
    ~model.searchMode =>
        \A r \in { Update(model, KeyMsg("n", TRUE)).m } :
            IF HasCurrentMatch(model)
            THEN /\ r.showLineNumbers = model.showLineNumbers
                 /\ r.searchMatches = model.searchMatches
                 /\ r.currentMatchIdx =
                        (model.currentMatchIdx + 1) % Len(model.searchMatches)
            ELSE /\ r.showLineNumbers = ~model.showLineNumbers
                 /\ r.currentMatchIdx = model.currentMatchIdx
                 /\ Update(r, KeyMsg("n", TRUE)).m.showLineNumbers
                        = model.showLineNumbers

\* The second of two matches is current, reached by a press of n, and the
\* line numbers are off, reached by a press of n before the search.
C22_Witness ==
    /\ ~model.searchMode
    /\ Len(model.searchMatches) = 2
    /\ model.currentMatchIdx = 1
    /\ ~model.showLineNumbers
    /\ Len(model.currentRows) > 0

\* mm has idx as current match and both panes at the row of that match.
AtMatch(mm, idx) ==
    /\ mm.currentMatchIdx = idx
    /\ mm.leftView.YOffset = GetMatchPosition(mm.searchMatches[idx + 1])
    /\ mm.rightView.YOffset = GetMatchPosition(mm.searchMatches[idx + 1])

\* From mm, n makes the next match current and N the one before, wrapping
\* at both ends; each sets both scroll offsets to the row of the new
\* current match; N after n gives back the current match.
MatchNavigation(mm) ==
    LET k == Len(mm.searchMatches)
        i == mm.currentMatchIdx
    IN  \A next \in { Update(mm, KeyMsg("n", TRUE)).m },
           prev \in { Update(mm, KeyMsg("N", TRUE)).m } :
            /\ next.searchMatches = mm.searchMatches
            /\ prev.searchMatches = mm.searchMatches
            /\ AtMatch(next, (i + 1) % k)
            /\ AtMatch(prev, (i + k - 1) % k)
            /\ AtMatch(Update(next, KeyMsg("N", TRUE)).m, i)

MaxContent == 4

MaxFindQuery == 2

\* The characters of the line and of the query.
FindChars == { "a", "A", "b" }

\* The first character of the diff line: context, deletion, addition.
FindPrefixes == { " ", "-", "+" }

\* The rows searched: Parse of the hunk header and the line.
FindRows(f) == ParseRows(<< LnHunk, f.content >>)

FindStart ==
    /\ input = << >>
    /\ line = << >>
    /\ rows = << >>
    /\ pendingMinus = << >>
    /\ pendingPlus = << >>
    /\ leftLineNum = 1
    /\ rightLineNum = 1
    /\ scanErr = FALSE
    /\ readErr = FALSE
    /\ err = FALSE
    /\ pc = "scan"
    /\ saved = StartFrame
    /\ model = << >>
    /\ inflight = << >>
    /\ theme = ""
    /\ \E p \in FindPrefixes, cs \in BOOLEAN :
           find = [content |-> << p >>, query |-> << >>, caseSensitive |-> cs,
                   pc |-> "args", matches |-> << >>]

\* One more character of the line.
FindContent ==
    /\ find.pc = "args"
    /\ Len(find.content) < MaxContent + 1
    /\ \E c \in FindChars : find' = [find EXCEPT !.content = Append(@, c)]
    /\ UNCHANGED <<parseVars, saved, model, inflight, theme>>

\* One more character of the query.
FindQuery ==
    /\ find.pc = "args"
    /\ Len(find.query) < MaxFindQuery
    /\ \E c \in FindChars : find' = [find EXCEPT !.query = Append(@, c)]
    /\ UNCHANGED <<parseVars, saved, model, inflight, theme>>

\* matches := SearchInRows(rows, query, fileName, caseSensitive)
FindCall ==
    /\ find.pc = "args"
    /\ find' = [find EXCEPT
                   !.pc = "done",
                   !.matches = SearchInRows(FindRows(find), find.query, "a.go",
                                            find.caseSensitive)]
    /\ UNCHANGED <<parseVars, saved, model, inflight, theme>>

FindNext == FindContent \/ FindQuery \/ FindCall

FindSpec == FindStart /\ [][FindNext]_vars

\* Two characters are the same letter, whatever their case.
EqualFold(x, y) ==
    \/ x = y
    \/ \E j \in 1..Len(UpperCase) :
           { x, y } = { UpperCase[j], LowerCase[j] }

\* q occurs in s at the 0-based column c, with the same case or ignoring it.
OccursAt(s, q, c, caseSensitive) ==
    /\ c >= 0
    /\ c + Len(q) <= Len(s)
    /\ \A i \in 1..Len(q) :
           IF caseSensitive THEN s[c + i] = q[i] ELSE EqualFold(s[c + i], q[i])

\* The Line a side name of a Match stands for.
SideOfRow(row, side) == IF side = "left" THEN row.Left ELSE row.Right

\* The columns of the matches reported for one side of one row, in order.
ColumnsOn(ms, rowIdx, side) ==
    LET on == SelectSeq(ms, LAMBDA m : m.RowIndex = rowIdx /\ m.Side = side)
    IN  [i \in 1..Len(on) |-> on[i].Column]

\* cols are the occurrences of q in s found scanning from the left, each
\* search starting where the match before it ended.
LeftToRightWithoutOverlap(cols, s, q, caseSensitive) ==
    /\ \A i \in 1..Len(cols) :
           LET from == IF i = 1 THEN 0 ELSE cols[i - 1] + Len(q)
           IN  /\ cols[i] >= from
               /\ OccursAt(s, q, cols[i], caseSensitive)
               /\ \A c \in from..(cols[i] - 1) :
                      ~OccursAt(s, q, c, caseSensitive)
    /\ LET from == IF cols = << >> THEN 0 ELSE cols[Len(cols)] + Len(q)
       IN  \A c \in from..Len(s) : ~OccursAt(s, q, c, caseSensitive)

\* The row of TestSearchInRows_Overlap.
BananaRows ==
    << DiffRow(Ptr([Number |-> 1,
                    Content |-> << "b", "a", "n", "a", "n", "a", "n", "a",
                                   "n", "a" >>,
                    Kind |-> LineKindContext]), Nil) >>

(***************************************************************************)
(* C24: the matches SearchInRows reports for one line on one side do not   *)
(* overlap: they are the occurrences found scanning from the left, the     *)
(* first the earliest occurrence and each next one the earliest that       *)
(* starts at or after the end of the match before it (a match at column c  *)
(* is followed by one at column >= c + len(query)); "nana" in              *)
(* "banananana" gives exactly the columns 2 and 6.                         *)
(***************************************************************************)
C24_MatchesDoNotOverlap ==
    /\ ColumnsOn(SearchInRows(BananaRows, << "n", "a", "n", "a" >>,
                              "test.txt", FALSE), 0, "left") = << 2, 6 >>
    /\ (find # << >> /\ find.pc = "done" /\ find.query # << >>) =>
           \A rowIdx \in 0..(Len(FindRows(find)) - 1),
              side \in { "left", "right" } :
               LET l == SideOfRow(FindRows(find)[rowIdx + 1], side)
               IN  (l # Nil /\ l[1].Kind # LineKindHeader) =>
                       LeftToRightWithoutOverlap(
                           ColumnsOn(find.matches, rowIdx, side),
                           l[1].Content, find.query, find.caseSensitive)

\* A searched line holds an occurrence that overlaps a reported match and
\* is not reported, after two matches that touch.
C24_Witness ==
    /\ find.pc = "done"
    /\ Len(find.matches) = 2
    /\ find.matches[2].Column = find.matches[1].Column + Len(find.query)
    /\ \E c \in 0..Len(find.content) :
           /\ OccursAt(find.content, find.query, c, find.caseSensitive)
           /\ c > find.matches[1].Column
           /\ c < find.matches[2].Column

\* Some column of s holds q, with the same case or ignoring it.
Contains(s, q, caseSensitive) ==
    \E c \in 0..Len(s) : OccursAt(s, q, c, caseSensitive)

(***************************************************************************)
(* C25: with caseSensitive = false SearchInRows reports an occurrence for  *)
(* every line that holds the query ignoring the case of letters, and with  *)
(* caseSensitive = true it reports an occurrence only at a column where    *)
(* the line holds the query in exactly the same case.  (Both also the      *)
(* other way round: nothing is reported where the query does not occur     *)
(* ignoring case, and a line holding the query exactly is reported.)       *)
(***************************************************************************)
C25_CaseSensitivity ==
    (find # << >> /\ find.pc = "done" /\ find.query # << >>) =>
        \A rowIdx \in 0..(Len(FindRows(find)) - 1),
           side \in { "left", "right" } :
            LET l == SideOfRow(FindRows(find)[rowIdx + 1], side)
                cols == ColumnsOn(find.matches, rowIdx, side)
            IN  (l # Nil /\ l[1].Kind # LineKindHeader) =>
                    /\ Contains(l[1].Content, find.query, find.caseSensitive)
                           <=> cols # << >>
                    /\ \A i \in 1..Len(cols) :
                           OccursAt(l[1].Content, find.query, cols[i],
                                    find.caseSensitive)

\* A search ignoring case reported a match whose letters differ in case
\* from the query.
C25_Witness ==
    /\ find.pc = "done"
    /\ ~find.caseSensitive
    /\ Len(find.query) = 2
    /\ Len(find.matches) >= 1
    /\ ~OccursAt(find.matches[1].Content, find.query, find.matches[1].Column,
                 TRUE)

\* The keys that move down and up.
DownKeys == { "j", "down" }

UpKeys == { "k", "up" }

\* The file selected after one step down or up from sel in a list of n
\* files, stopping at the ends.
StepSelection(k, sel, n) ==
    IF k \in DownKeys THEN (IF sel < n - 1 THEN sel + 1 ELSE sel)
                      ELSE (IF sel > 0 THEN sel - 1 ELSE sel)

\* From mm: tab gives the other focus and a second tab the first again;
\* with the file list focused and files present j, down, k and up change
\* the selected file by one step, not past either end, and nothing else of
\* the model; with the diff focused they leave the selected file alone and
\* return no load command.
FocusAndNavigation(mm) ==
    /\ \A r \in { Update(mm, KeyMsg("tab", FALSE)).m } :
           /\ r = [mm EXCEPT !.focus = IF mm.focus = focusFileList
                                       THEN focusDiff ELSE focusFileList]
           /\ Update(r, KeyMsg("tab", FALSE)).m = mm
    /\ \A k \in DownKeys \cup UpKeys :
           \A r \in { Update(mm, KeyMsg(k, k \in RuneKeys)) } :
               /\ (mm.focus = focusFileList /\ Len(mm.files) > 0) =>
                      /\ r.m = [mm EXCEPT !.selectedFile =
                                   StepSelection(k, mm.selectedFile,
                                                 Len(mm.files))]
                      /\ r.m.leftView.YOffset = mm.leftView.YOffset
                      /\ r.m.rightView.YOffset = mm.rightView.YOffset
               /\ mm.focus = focusDiff =>
                      /\ r.m.selectedFile = mm.selectedFile
                      /\ r.cmd \notin LoadCmds

(***************************************************************************)
(* C26, as stated: in every state tab toggles the focus between file list  *)
(* and diff and two presses restore it; while the file list is focused and *)
(* files exist j/down and k/up change only the selected file, by one step  *)
(* and without wrapping, and never the scroll offsets of the diff panes;   *)
(* while the diff is focused they never change the selected file and never *)
(* issue a diff load.                                                      *)
(***************************************************************************)
C26_FocusAndNavigationAnyMode == FocusAndNavigation(model)

(***************************************************************************)
(* C26, amended: the same outside search mode.  (In search mode tab, j, k, *)
(* up and down go to the search input.)                                    *)
(***************************************************************************)
C26_FocusAndNavigation == ~model.searchMode => FocusAndNavigation(model)

\* The file list is focused with the last of two files selected while the
\* diff panes are scrolled down: j stays on the last file.
C26_Witness ==
    /\ ~model.searchMode
    /\ model.focus = focusFileList
    /\ Len(model.files) = 2
    /\ model.selectedFile = 1
    /\ model.leftView.YOffset > 0
    /\ Update(model, KeyMsg("j", TRUE)).m.selectedFile = 1
    /\ Update(model, KeyMsg("k", TRUE)).cmd
           = LoadFileDiffCmd("a.go", model.fullContext)

\* The diff loads that can end in the current state, and the messages of
\* those that end well.
LoadsRunning == { c \in LoadCmds : c.type = "loadFileDiff" /\ inflight[c] > 0 }

LoadedWell == { msg \in UNION { Results(c) : c \in LoadsRunning } :
                  msg.err = NoError }

(***************************************************************************)
(* C27: whenever the diff of a file is loaded successfully (the load was   *)
(* issued by selecting a file, by toggling the context mode or at startup) *)
(* Update leaves the scroll offsets of both diff panes at 0, whatever they *)
(* were before.                                                            *)
(***************************************************************************)
C27_LoadedDiffStartsAtTop ==
    \A msg \in LoadedWell :
        \A r \in { Update(model, msg).m } :
            /\ r.leftView.YOffset = 0
            /\ r.rightView.YOffset = 0
            /\ r.currentRows = msg.rows

\* A diff load is running while both panes are scrolled down in a diff
\* longer than the panes.
C27_Witness ==
    /\ LoadedWell # { }
    /\ model.leftView.YOffset > 0
    /\ model.rightView.YOffset > 0
    /\ model.leftView.lines > model.leftView.Height
    /\ \E msg \in LoadedWell :
           /\ Len(msg.rows) > model.leftView.YOffset
           /\ Update(model, msg).m.leftView.YOffset = 0

(***************************************************************************)
(* C28: toggling the line numbers (the key n outside search mode with no   *)
(* current match) renders the rows already held again with the new         *)
(* setting: Update returns no load command and leaves currentRows, the     *)
(* file list, the selected file, the context mode and the scroll offsets   *)
(* of both diff panes as they were.                                        *)
(***************************************************************************)
C28_ToggleKeepsRowsAndScroll ==
    (~model.searchMode /\ ~HasCurrentMatch(model)) =>
        \A r \in { Update(model, KeyMsg("n", TRUE)) } :
            /\ r.cmd = CmdNil
            /\ r.m.showLineNumbers = ~model.showLineNumbers
            /\ r.m.currentRows = model.currentRows
            /\ r.m.files = model.files
            /\ r.m.selectedFile = model.selectedFile
            /\ r.m.fullContext = model.fullContext
            /\ r.m.leftView.YOffset = model.leftView.YOffset
            /\ r.m.rightView.YOffset = model.rightView.YOffset
            /\ Len(model.currentRows) > 0 =>
                   /\ r.m.leftView.lines
                          = Len(RenderSide(model.currentRows, SideLeft,
                                           r.m.showLineNumbers)) + 1
                   /\ r.m.rightView.lines
                          = Len(RenderSide(model.currentRows, SideRight,
                                           r.m.showLineNumbers)) + 1

\* The line numbers are off and no match is current while a diff is shown
\* scrolled down and a file is selected.
C28_Witness ==
    /\ ~model.searchMode
    /\ ~HasCurrentMatch(model)
    /\ ~model.showLineNumbers
    /\ Len(model.currentRows) > 0
    /\ Len(model.files) > 0
    /\ model.leftView.YOffset > 0
    /\ Update(model, KeyMsg("n", TRUE)).m.leftView.YOffset
           = model.leftView.YOffset

(***************************************************************************)
(* The application started with a --file argument or with another theme:   *)
(* the user cycles the themes, walks the file list and opens and leaves    *)
(* the search input.                                                       *)
(***************************************************************************)
\* The values of the --file flag: none, each file, a path not in the list.
FlagFiles == { "", "a.go", "b.go", "c.go" }

\* The indices in ListThemes of the themes named by --theme or the config.
FlagThemes == { 0, 4, 8 }

StartPressed(mm) ==
    IF mm.searchMode THEN { "t", "esc" } ELSE { "t", "j", "k", "/" }

StartInit ==
    /\ input = << >>
    /\ line = << >>
    /\ rows = << >>
    /\ pendingMinus = << >>
    /\ pendingPlus = << >>
    /\ leftLineNum = 1
    /\ rightLineNum = 1
    /\ scanErr = FALSE
    /\ readErr = FALSE
    /\ err = FALSE
    /\ pc = "scan"
    /\ saved = StartFrame
    /\ find = << >>
    /\ inflight = ModelInit
    /\ \E f \in FlagFiles, i \in FlagThemes :
           /\ f = "" \/ i = 0
           /\ model = InitialModel(TRUE, FALSE, f, i)
           /\ theme = ListThemes[i + 1]

StartKeyPress ==
    \E k \in StartPressed(model) : Step(KeyMsg(k, k \in RuneKeys), CmdNil)

StartNext == StartKeyPress \/ Resize \/ Deliver

StartSpec == StartInit /\ [][StartNext]_vars

\* The file lists with at least one file that the running loadFilesCmd can
\* deliver without error.
ListsLoaded ==
    { msg \in Results(LoadFilesCmd) :
        inflight[LoadFilesCmd] > 0 /\ msg.err = NoError /\ Len(msg.files) > 0 }

\* The 0-based positions in files of the entries with the path p.
PositionsOf(files, p) == { i \in 0..(Len(files) - 1) : files[i + 1].Path = p }

(***************************************************************************)
(* C29: when the file list is loaded with at least one file, the selected  *)
(* file is the entry whose path is the --file argument if there is such an *)
(* entry, and the first file otherwise (no --file given, or no entry with  *)
(* that path); Update returns the diff load of exactly that file.          *)
(***************************************************************************)
C29_InitialFileSelected ==
    \A msg \in ListsLoaded :
        \A r \in { Update(model, msg) } :
            /\ r.m.files = msg.files
            /\ IF PositionsOf(msg.files, model.initialFile) # { }
               THEN r.m.selectedFile \in PositionsOf(msg.files, model.initialFile)
               ELSE r.m.selectedFile = 0
            /\ r.cmd = LoadFileDiffCmd(msg.files[r.m.selectedFile + 1].Path,
                                       model.fullContext)

\* The list has arrived in an application started with --file=b.go: the
\* second file is selected and its diff, the first to be shown, is loading.
C29_Witness ==
    /\ model.initialFile = "b.go"
    /\ Len(model.files) = 2
    /\ model.selectedFile = 1
    /\ model.currentRows = << >>
    /\ inflight[LoadFileDiffCmd("b.go", model.fullContext)] = 1

\* The themes active after each of n presses of t from mm, in order, and
\* the model after the last press.
RECURSIVE PressT(_, _, _)
PressT(mm, n, seen) ==
    IF n = 0 THEN [m |-> mm, themes |-> seen]
    ELSE LET r == Update(mm, KeyMsg("t", TRUE))
         IN  PressT(r.m, n - 1, Append(seen, r.theme))

(***************************************************************************)
(* C30: the active theme is always ListThemes[currentThemeIdx] with        *)
(* 0 <= currentThemeIdx < 9; each press of t outside search mode activates *)
(* the next theme in the order of ListThemes, the first after the last;    *)
(* within 9 presses every theme has been active, and 9 presses give back   *)
(* the theme the presses started from.                                     *)
(***************************************************************************)
C30_ThemeCycle ==
    /\ Len(ListThemes) = 9
    /\ model.currentThemeIdx \in 0..8
    /\ theme = ListThemes[model.currentThemeIdx + 1]
    /\ ~model.searchMode =>
           \A r \in { Update(model, KeyMsg("t", TRUE)) },
              nine \in { PressT(model, 9, << >>) } :
               /\ r.m.currentThemeIdx = (model.currentThemeIdx + 1) % 9
               /\ r.theme = ListThemes[r.m.currentThemeIdx + 1]
               /\ { nine.themes[i] : i \in 1..9 }
                      = { ListThemes[i] : i \in 1..9 }
               /\ nine.themes[9] = theme
               /\ nine.m.currentThemeIdx = model.currentThemeIdx

\* The first theme is active again, announced by the notice of a press of
\* t: the press wrapped from the last theme.
C30_Witness ==
    /\ ~model.searchMode
    /\ model.currentThemeIdx = 0
    /\ theme = ListThemes[1]
    /\ model.themeChangeTicks = 3
    /\ model.themeChangeMsg = << "Theme: ", ListThemes[1] >>
    /\ Len(model.currentRows) > 0

(***************************************************************************)
(* Diff loads overtaking each other: the user walks the file list and      *)
(* toggles the context mode while earlier loads are still running, and the *)
(* runtime delivers the results of the running loads in any order.         *)
(***************************************************************************)
\* The number of commands that run at the same time.
MaxLoads == 2

\* The keys that issue a diff load.
LoadKeys == { "j", "k", "c" }

LoadKeyPress ==
    \E k \in LoadKeys : StepWithin(KeyMsg(k, TRUE), CmdNil, MaxLoads)

LoadDeliver ==
    \E c \in LoadCmds :
        /\ inflight[c] > 0
        /\ \E msg \in Results(c) : StepWithin(msg, c, MaxLoads)

LoadNext == LoadKeyPress \/ LoadDeliver

LoadSpec == UIInit /\ [][LoadNext]_vars

\* No command is running, and the last diff load to end ended well.
LoadsSettled(mm) ==
    /\ Outstanding(inflight) = 0
    /\ Len(mm.files) > 0
    /\ mm.err = NoError

(***************************************************************************)
(* C31: once every diff load issued by selecting files and toggling the    *)
(* context mode has delivered its result, in whatever order, and the last  *)
(* result was no error, the rows displayed are the parsed diff of the      *)
(* selected file under the current context mode.                           *)
(***************************************************************************)
C31_SettledRowsAreOfSelection ==
    LoadsSettled(model) =>
        model.currentRows
            = ParseRows(GitDiff(SelectedPath(model), model.fullContext))

\* The 0-based line of the column of a side at which the row with the
\* 0-based index rowIdx begins: the lines written for the rows before it.
RenderedLineOf(rs, rowIdx, side, showLineNumbers) ==
    Len(RenderSide(SubSeq(rs, 1, rowIdx), side, showLineNumbers))

(***************************************************************************)
(* C32: for every match SearchInRows returns in rows produced by Parse,    *)
(* the scroll position GetMatchPosition gives is the line at which         *)
(* RenderSide renders the row of the match in the column of its side, with *)
(* line numbers shown or not, also when hunk-header rows precede the row.  *)
(***************************************************************************)
C32_MatchPositionIsRenderedLine ==
    find # << >> /\ find.pc = "done" =>
        \A i \in 1..Len(find.matches) : \A show \in BOOLEAN :
            GetMatchPosition(find.matches[i])
                = RenderedLineOf(FindRows(find), find.matches[i].RowIndex,
                                 IF find.matches[i].Side = "left"
                                 THEN SideLeft ELSE SideRight,
                                 show)

\* The match refers to the rows rs: its row exists, and the Line on its
\* side of that row has the query at its column, the case ignored.
RefersTo(match, rs, query) ==
    /\ match.RowIndex >= 0
    /\ match.RowIndex < Len(rs)
    /\ SideOfRow(rs[match.RowIndex + 1], match.Side) # Nil
    /\ OccursAt(SideOfRow(rs[match.RowIndex + 1], match.Side)[1].Content,
                query, match.Column, FALSE)

(***************************************************************************)
(* C33: in every state of the application every entry of searchMatches     *)
(* refers to the rows displayed: its RowIndex is an index of currentRows   *)
(* and the Line on its side of that row contains the query at its Column,  *)
(* also after another file was selected or the context mode was toggled    *)
(* while matches exist.                                                    *)
(***************************************************************************)
C33_MatchesReferToShownRows ==
    \A i \in 1..Len(model.searchMatches) :
        RefersTo(model.searchMatches[i], model.currentRows,
                 model.searchInput.value)

(***************************************************************************)
(* C34: whenever search mode is off and the query is empty there are no    *)
(* active matches: searchMatches is empty and currentMatchIdx is -1, also  *)
(* after search mode was cancelled with esc, at once or after typing.      *)
(***************************************************************************)
C34_NoMatchesWithoutQuery ==
    (~model.searchMode /\ model.searchInput.value = << >>) =>
        /\ model.searchMatches = << >>
        /\ model.currentMatchIdx = -1

(***************************************************************************)
(* C35: in every state of the application currentMatchIdx is -1 or an      *)
(* index of searchMatches (0 <= currentMatchIdx < len(searchMatches)), and *)
(* it is -1 whenever searchMatches is empty: match navigation and the      *)
(* footer's "Match X of Y" never index out of range.                       *)
(***************************************************************************)
C35_CurrentMatchIdxInRange ==
    /\ \/ model.currentMatchIdx = -1
       \/ /\ 0 <= model.currentMatchIdx
          /\ model.currentMatchIdx < Len(model.searchMatches)
    /\ Len(model.searchMatches) = 0 => model.currentMatchIdx = -1

\* The last of two matches is current outside search mode, and n goes on
\* to the first.
C35_Witness ==
    /\ ~model.searchMode
    /\ Len(model.searchMatches) = 2
    /\ model.currentMatchIdx = 1
    /\ Update(model, KeyMsg("n", TRUE)).m.currentMatchIdx = 0
    /\ Update(model, KeyMsg("N", TRUE)).m.currentMatchIdx = 0

\* The selection names a file of the list.
SelectionInRange(mm) ==
    /\ 0 <= mm.selectedFile
    /\ mm.selectedFile < Len(mm.files)

\* The keys that walk the file list or toggle the context mode.
SelectKeys == DownKeys \cup UpKeys \cup { "c" }

\* The answer of Update keeps the selection in the list, and a diff load it
\* returns is the load of the selected file.
LoadsSelected(r) ==
    /\ SelectionInRange(r.m)
    /\ r.cmd # CmdNil =>
           r.cmd = LoadFileDiffCmd(r.m.files[r.m.selectedFile + 1].Path,
                                   r.m.fullContext)

(***************************************************************************)
(* C36: in every state of the application with a file list that is not    *)
(* empty, 0 <= selectedFile < len(files); the diff load that j/k (or the   *)
(* arrows), the context toggle or the arrival of the file list returns     *)
(* names the file at the selection, an existing file.                      *)
(***************************************************************************)
C36_SelectionInRange ==
    /\ Len(model.files) > 0 => SelectionInRange(model)
    /\ (Len(model.files) > 0 /\ ~model.searchMode) =>
           \A k \in SelectKeys :
               LoadsSelected(Update(model, KeyMsg(k, k \in RuneKeys)))
    /\ \A msg \in ListsLoaded : LoadsSelected(Update(model, msg))

\* Started with --file=c.go, a path not in the list of two files; the user
\* has walked to the last file: j stays there, k loads the first file and
\* c loads the last one with full context.
C36_Witness ==
    /\ model.initialFile = "c.go"
    /\ ~model.searchMode
    /\ model.focus = focusFileList
    /\ Len(model.files) = 2
    /\ model.selectedFile = 1
    /\ Update(model, KeyMsg("j", TRUE)).cmd = CmdNil
    /\ Update(model, KeyMsg("j", TRUE)).m.selectedFile = 1
    /\ Update(model, KeyMsg("k", TRUE)).cmd = LoadFileDiffCmd("a.go", FALSE)
    /\ Update(model, KeyMsg("c", TRUE)).cmd = LoadFileDiffCmd("b.go", TRUE)

====
